---- MODULE Spec2Model ----
(***************************************************************************)
(* Pagination engines of src/lib/text-flow-monitor.ts (PaginationEngine    *)
(* and AdvancedPaginationEngine) and createPagedHTML.                      *)
(*                                                                         *)
(* Lengths are counted in quarter pixels, so that the 0.5 px safety margin *)
(* is the integer 2 and heights strictly between 0 and 0.5 px exist.       *)
(* A text is a sequence of characters; " " and the no-break space are the  *)
(* characters that the regular expression \s matches.                      *)
(***************************************************************************)
EXTENDS Integers, Sequences, FiniteSets, TLC

\* ---------------------------------------------------------------- bounds
MaxPageH == 5
MaxBlockH == 2
MaxLen == 3
MaxOps == 2
MaxElems == 2
LineH == 2
WordsPerLine == 1
ClassMargin == 0
MaxLines == 4
MaxTextLines == 3
MaxPasses == 4

\* ------------------------------------------------------ program constants
FONT_READY_MARGIN == 2

NBSP == "nbsp"
\* the bottom margins a block's stylesheet may give it
BlockMargins == {0, 1}
Alphabet == {"a", " "}
Texts == UNION {[1..n -> Alphabet] : n \in 0..MaxLen}
ClassNames == {"action"}
\* deepest recursion a paragraph of MaxLen characters can need, plus slack
MaxDepth == MaxLen + 2

VARIABLES variant, pageHeight, host, pages, current, pageNo, ops, log, call,
          lines, startIndex, result

engineVars == <<variant, pageHeight, host, pages, current, pageNo, ops, log, call>>
\* the arguments of an extractor and what it returned
extractVars == <<lines, startIndex, result>>

vars == <<variant, pageHeight, host, pages, current, pageNo, ops, log, call,
          lines, startIndex, result>>

\* ------------------------------------------------------------ strings
IsSpace(c) == c \in {" ", NBSP}

RECURSIVE SplitFrom(_, _, _)
SplitFrom(s, i, cur) ==
  IF i > Len(s) THEN <<cur>>
  ELSE IF IsSpace(s[i])
       THEN IF i > 1 /\ IsSpace(s[i-1])
            THEN SplitFrom(s, i + 1, cur)
            ELSE <<cur>> \o SplitFrom(s, i + 1, <<>>)
       ELSE SplitFrom(s, i + 1, Append(cur, s[i]))

\* rawText.split(/\s+/)
SplitWs(s) == SplitFrom(s, 1, <<>>)

\* .filter(Boolean)
FilterBoolean(ws) == SelectSeq(ws, LAMBDA w : w # <<>>)

RECURSIVE Join(_)
\* words.join(' ')
Join(ws) ==
  IF Len(ws) = 0 THEN <<>>
  ELSE IF Len(ws) = 1 THEN ws[1]
  ELSE ws[1] \o <<" ">> \o Join(Tail(ws))

RECURSIVE TrimStart(_)
TrimStart(s) == IF Len(s) > 0 /\ IsSpace(s[1]) THEN TrimStart(Tail(s)) ELSE s

RECURSIVE TrimEnd(_)
TrimEnd(s) ==
  IF Len(s) > 0 /\ IsSpace(s[Len(s)]) THEN TrimEnd(SubSeq(s, 1, Len(s) - 1)) ELSE s

\* String.prototype.trim
Trim(s) == TrimEnd(TrimStart(s))

\* words.slice(from) and words.slice(0, cnt), zero-based as in the source
SliceFrom(ws, from) == SubSeq(ws, from + 1, Len(ws))
\* mutant: the slice stops one word early
SliceTo_OffByOne(ws, cnt) == SubSeq(ws, 1, cnt - 1)
SliceTo(ws, cnt) == SubSeq(ws, 1, cnt)

\* ------------------------------------------------- measurement (host)
\* Lines the host lays a text block out on: the words wrap WordsPerLine to a
\* line, a lone no-break space still opens a line, an empty text opens none.
RenderedLines(text) ==
  LET n == Len(FilterBoolean(SplitWs(text)))
  IN IF n > 0 THEN (n + WordsPerLine - 1) \div WordsPerLine
     ELSE IF \E i \in 1..Len(text) : text[i] = NBSP THEN 1 ELSE 0

\* getBoundingClientRect().height of a text block
TextHeight(text) == LineH * RenderedLines(text)

OuterHeight(el) == el.height + el.marginTop + el.marginBottom

\* ------------------------------------------------------------- engine
Separator == [kind |-> "page-separator", ref |-> 0]

CreatePage(no) == [no |-> no, content |-> <<>>]

AddPage(e, isFirst) ==
  LET no == e.pageNo + 1
      page == CreatePage(no)
      h1 == IF isFirst THEN e.host ELSE Append(e.host, Separator)
  IN [host |-> Append(h1, [kind |-> "page", ref |-> Len(e.pages) + 1]),
      pages |-> Append(e.pages, page),
      current |-> Len(e.pages) + 1,
      pageNo |-> no]

Children(e) == e.pages[e.current].content

RECURSIVE SumOuter(_)
SumOuter(cs) == IF cs = <<>> THEN 0 ELSE OuterHeight(Head(cs)) + SumOuter(Tail(cs))

RemainingHeight(e, total) ==
  LET used == SumOuter(Children(e))
      remaining == total - used - FONT_READY_MARGIN
  IN IF remaining > 0 THEN remaining ELSE 0

AppendChild(e, node) ==
  [e EXCEPT !.pages[e.current].content = Append(@, node)]

RemoveChild(e, node) ==
  [e EXCEPT !.pages[e.current].content = SelectSeq(@, LAMBDA c : c.id # node.id)]

\* mutant: the test for an empty page is dropped
AppendBlock_NoGuard(e, node, total) ==
  LET e1 == AppendChild(e, node)
      height == OuterHeight(node)
      remaining == RemainingHeight(e1, total)
  IN IF height > remaining
     THEN AppendChild(AddPage(RemoveChild(e1, node), FALSE), node)
     ELSE e1

\* mutant: the probe is not removed from the page it leaves
AppendBlock_KeepsProbe(e, node, total) ==
  LET e1 == AppendChild(e, node)
      height == OuterHeight(node)
      remaining == RemainingHeight(e1, total)
  IN IF height > remaining /\ Len(Children(e1)) > 1
     THEN AppendChild(AddPage(e1, FALSE), node)
     ELSE e1

\* mutant: a block is never moved to a new page
AppendBlock_NeverMoves(e, node, total) == AppendChild(e, node)

AppendBlock(e, node, total) ==
  LET e1 == AppendChild(e, node)
      height == OuterHeight(node)
      remaining == RemainingHeight(e1, total)
  IN IF height > remaining /\ Len(Children(e1)) > 1
     THEN AppendChild(AddPage(RemoveChild(e1, node), FALSE), node)
     ELSE e1

\* build(count): a div of class className holding the first count words
Build(words, count, className, id) ==
  LET text == Join(SliceTo(words, count))
  IN [id |-> id, cls |-> className, text |-> text,
      height |-> TextHeight(text), marginTop |-> 0, marginBottom |-> ClassMargin]

\* the placeholder of an empty paragraph: innerHTML = '&nbsp;'
Placeholder(className, id) ==
  [id |-> id, cls |-> className, text |-> <<NBSP>>,
   height |-> TextHeight(<<NBSP>>), marginTop |-> 0, marginBottom |-> ClassMargin]

\* mutant: the comparisons of the fit test are strict
Fits_Strict(v, e, probe, total) ==
  LET e1 == AppendChild(e, probe)
  IN IF v = "basic"
     THEN RemainingHeight(e1, total) > 0
     ELSE OuterHeight(probe) < RemainingHeight(e1, total) + OuterHeight(probe)

\* the fit test of one probe, inserted in the current page when it is made
Fits(v, e, probe, total) ==
  LET e1 == AppendChild(e, probe)
  IN IF v = "basic"
     THEN RemainingHeight(e1, total) >= 0
     ELSE OuterHeight(probe) <= RemainingHeight(e1, total) + OuterHeight(probe)

RECURSIVE BinarySearch(_, _, _, _, _, _, _, _, _)
\* while (lo <= hi) { ... }: the value of best when the loop ends
BinarySearch(v, e, words, className, id, total, lo, hi, best) ==
  IF lo > hi THEN best
  ELSE LET mid == (lo + hi) \div 2
           probe == Build(words, mid, className, id)
       IN IF Fits(v, e, probe, total)
          THEN BinarySearch(v, e, words, className, id, total, mid + 1, hi, mid)
          ELSE BinarySearch(v, e, words, className, id, total, lo, mid - 1, best)

\* words of the paragraph: PaginationEngine filters the empty strings out
ParagraphWords(v, rawText) ==
  IF v = "basic" THEN FilterBoolean(SplitWs(rawText)) ELSE SplitWs(rawText)

\* the text handed to the recursive call, <<>> when there is none
RestText(v, words, best) ==
  IF v = "basic" THEN Join(SliceFrom(words, best))
  ELSE Trim(Join(SliceFrom(words, best)))

HasRest(v, words, best) ==
  IF v = "basic" THEN Len(SliceFrom(words, best)) > 0
  ELSE RestText(v, words, best) # <<>>

RECURSIVE AppendTextParagraph(_, _, _, _, _, _, _, _)
\* The result is the engine after the call, the number of invocations made
\* (the first one and the recursive ones) and whether the recursion ended
\* within fuel invocations.
AppendTextParagraph(v, e, rawText, className, total, call_no, depth, fuel) ==
  LET words == ParagraphWords(v, rawText)
      id == <<call_no, depth>>
  IN IF v = "basic" /\ Len(words) = 0
     THEN [eng |-> AppendBlock(e, Placeholder(className, id), total),
           calls |-> depth + 1, ended |-> TRUE]
     ELSE
       LET e1 == IF RemainingHeight(e, total) <= 0 THEN AddPage(e, FALSE) ELSE e
           lo == IF v = "basic" THEN 1 ELSE 0
           best == BinarySearch(v, e1, words, className, id, total, lo, Len(words), 0)
           e2 == IF best > 0
                 THEN AppendBlock(e1, Build(words, best, className, id), total)
                 ELSE e1
       IN IF HasRest(v, words, best)
          THEN IF fuel = 0
               THEN [eng |-> e2, calls |-> depth + 1, ended |-> FALSE]
               ELSE AppendTextParagraph(v, AddPage(e2, FALSE), RestText(v, words, best),
                                        className, total, call_no, depth + 1, fuel - 1)
          ELSE [eng |-> e2, calls |-> depth + 1, ended |-> TRUE]

\* mutant: the page counter is not reset
ClearEngine_KeepsPageNo(e) ==
  AddPage([e EXCEPT !.host = <<>>, !.pages = <<>>], TRUE)

\* host.innerHTML = ''; pages = []; pageNo = 0; addPage(true)
ClearEngine(e) ==
  AddPage([e EXCEPT !.host = <<>>, !.pages = <<>>, !.pageNo = 0], TRUE)

\* the constructor: an empty host, no page, pageNo 0, then addPage(true)
NewEngine ==
  AddPage([host |-> <<>>, pages |-> <<>>, current |-> 0, pageNo |-> 0], TRUE)

\* the texts a character name or a parenthetical is drawn from; the empty
\* text is a parenthetical that was not given
ShortTexts == {t \in Texts : Len(t) <= 1}

\* a div of class className whose textContent is text
TextBlock(className, text, id) ==
  [id |-> id, cls |-> className, text |-> text,
   height |-> TextHeight(text), marginTop |-> 0, marginBottom |-> ClassMargin]

\* AdvancedPaginationEngine.appendDialogue(character, dialogue, parenthetical):
\* the character block has id <<call_no, 0>>, the parenthetical <<call_no, 1>>
\* and the fragments of the dialogue <<call_no, 2>>, <<call_no, 3>>, ...
AppendDialogue(e, character, dialogue, parenthetical, total, call_no) ==
  LET e1 == AppendBlock(e, TextBlock("character", character, <<call_no, 0>>), total)
      e2 == IF parenthetical # <<>>
            THEN AppendBlock(e1, TextBlock("parenthetical", parenthetical,
                                           <<call_no, 1>>), total)
            ELSE e1
  IN AppendTextParagraph("advanced", e2, dialogue, "dialogue", total,
                         call_no, 2, MaxDepth).eng

\* ------------------------------------------------- createPagedHTML
BlockTypes == {"basmala", "scene-header", "transition", "dialogue"}

\* isParenthetical: /^\(.*\)$/
IsParenthetical(line) ==
  Len(line) >= 2 /\ line[1] = "(" /\ line[Len(line)] = ")"

\* The elements analyzeContent can hand over: the content of an action element
\* is a trimmed line; a block element carries the height the host measures
\* for the node built from it.
Elements ==
  [type : BlockTypes, content : {<<>>}, height : 0..MaxBlockH]
    \cup [type : {"action"}, content : {t \in Texts : Trim(t) = t}, height : {0}]

ElementLists == UNION {[1..n -> Elements] : n \in 0..MaxElems}

AppendElement(e, element, total, idx) ==
  IF element.type \in BlockTypes
  THEN AppendBlock(e, [id |-> <<idx, 0>>, cls |-> element.type, text |-> element.content,
                       height |-> element.height, marginTop |-> 0, marginBottom |-> 0],
                   total)
  ELSE IF element.content = <<>>
  THEN AppendBlock(e, [id |-> <<idx, 0>>, cls |-> "action", text |-> <<>>,
                       height |-> LineH, marginTop |-> 0, marginBottom |-> ClassMargin],
                   total)
  ELSE IF IsParenthetical(element.content)
  THEN AppendBlock(e, [id |-> <<idx, 0>>, cls |-> "parenthetical",
                       text |-> element.content,
                       height |-> TextHeight(element.content),
                       marginTop |-> 0, marginBottom |-> ClassMargin],
                   total)
  ELSE AppendTextParagraph("basic", e, element.content, "action", total,
                           idx, 0, MaxDepth).eng

RECURSIVE ForEachAppendElement(_, _, _, _)
\* elements.forEach((element) => appendElement(engine, element)), from index i
ForEachAppendElement(e, elements, i, total) ==
  IF i > Len(elements) THEN e
  ELSE ForEachAppendElement(AppendElement(e, elements[i], total, i), elements, i + 1, total)

\* the engine createPagedHTML leaves behind for the elements analyzeContent gave
CreatePagedHTML(elements, total) == ForEachAppendElement(NewEngine, elements, 1, total)

\* ------------------------------------------------------ screenplay lines
\* A line is a sequence of symbols.  A symbol stands for one word or one
\* mark of the line, the Arabic words under a Latin name; " " is a
\* white-space character.
\*   "mashhad" مشهد    "qasr" قصر    "ahmad" أحمد    "yajlis" يجلس
\*   "maa" مع    "qata" قطع    "ila" إلى    "endash" –
\*   "dakhili-nahar" داخلي-نهار    "intiqal" انتقال
\*   "shlama" ܫܠܡܐ, a word in Syriac letters
Basmala == "bismillah al-rahman al-rahim"
\* a run of 200 Arabic letters
LongWord == "word of 200 letters"
ArabicWords ==
  {"mashhad", "qasr", "ahmad", "yajlis", "maa", "qata", "ila", "intiqal", Basmala, LongWord}
SyriacWords == {"shlama"}
\* the characters the serialization of a text node replaces
HtmlSpecial == {"<", ">", "&"}
Quote == "\""
Digits == {"1"}
Dashes == {"-", "endash"}
TimeLocations == {"dakhili-nahar"}
\* ' – ', the separator of the fragments of a place
PlaceSeparator == <<" ", "endash", " ">>

\* the number of characters a symbol stands for
SymLen(c) ==
  CASE c = LongWord -> 200
    [] c = Basmala -> 22
    [] c \in TimeLocations -> 10
    [] c = "intiqal" -> 6
    [] c \in {"mashhad", "ahmad", "yajlis", "shlama"} -> 4
    [] c \in {"qasr", "qata", "ila"} -> 3
    [] c = "maa" -> 2
    [] OTHER -> 1

RECURSIVE LineLength(_)
\* line.length
LineLength(s) == IF s = <<>> THEN 0 ELSE SymLen(Head(s)) + LineLength(Tail(s))

\* line.includes(word) for a word of the alphabet
Includes(s, word) == \E i \in 1..Len(s) : s[i] = word

\* the line at a zero-based index
LineAt(ls, i) == ls[i + 1]

RECURSIVE SkipSpaces(_, _)
\* \s* from position i: the position of the first character it leaves
SkipSpaces(s, i) == IF i <= Len(s) /\ IsSpace(s[i]) THEN SkipSpaces(s, i + 1) ELSE i

RECURSIVE SkipDigits(_, _)
\* \d* from position i
SkipDigits(s, i) == IF i <= Len(s) /\ s[i] \in Digits THEN SkipDigits(s, i + 1) ELSE i

\* /^(مشهد|م\.)\s*(\d+)/: the position after the number, 0 without a match
ScenePrefixEnd(s) ==
  IF Len(s) >= 1 /\ s[1] = "mashhad"
  THEN LET d == SkipSpaces(s, 2)
           e == SkipDigits(s, d)
       IN IF e > d THEN e ELSE 0
  ELSE 0

\* s.replace(/^\s*[-–—]?\s*/, '')
StripLeadingDash(s) ==
  LET q == SkipSpaces(s, 1)
      r == IF q <= Len(s) /\ s[q] \in Dashes THEN q + 1 ELSE q
  IN SubSeq(s, SkipSpaces(s, r), Len(s))

\* the position of the first time/location token, 0 when there is none
TimeLocationIndex(s) ==
  IF \E i \in 1..Len(s) : s[i] \in TimeLocations
  THEN CHOOSE i \in 1..Len(s) :
         s[i] \in TimeLocations /\ \A j \in 1..(i - 1) : s[j] \notin TimeLocations
  ELSE 0

\* --------------------------------------------- SceneHeaderExtractor
\* the words of the extractor's lists that the alphabet has: commonWords
\* ("min" is part of the basmala) and actionIndicators
SHE_CommonWords == {"maa", "ila", Basmala}
SHE_ActionIndicators == {"yajlis"}

SHE_ContainsCommonWords(s) == \E w \in SHE_CommonWords : Includes(s, w)

\* the patterns /qata\s+ila/, /qata\./ and /intiqal/; the other patterns need
\* words the alphabet does not have
SHE_IsTransition(s) ==
  \/ Includes(s, "intiqal")
  \/ \E i \in 1..Len(s) :
       /\ s[i] = "qata"
       /\ i < Len(s)
       /\ \/ s[i + 1] = "."
          \/ /\ IsSpace(s[i + 1])
             /\ SkipSpaces(s, i + 1) <= Len(s)
             /\ s[SkipSpaces(s, i + 1)] = "ila"

RECURSIVE NameRunEnd(_, _)
\* [\u0600-\u06FF\s()]* from position i
NameRunEnd(s, i) ==
  IF i <= Len(s) /\ (s[i] \in ArabicWords \/ IsSpace(s[i]) \/ s[i] \in {"(", ")"})
  THEN NameRunEnd(s, i + 1) ELSE i

\* trimmed.match(/^([\u0600-\u06FF\s()]+)(:)/) and no common word in group 1
SHE_IsCharacterName(line) ==
  LET s == Trim(line)
      e == NameRunEnd(s, 1)
  IN /\ e > 1
     /\ e <= Len(s)
     /\ s[e] = ":"
     /\ ~SHE_ContainsCommonWords(SubSeq(s, 1, e - 1))

SHE_IsParenthetical(s) == Len(s) >= 2 /\ s[1] = "(" /\ s[Len(s)] = ")"

SHE_IsLikelyAction(line) ==
  LET s == Trim(line) IN Len(s) >= 1 /\ s[1] \in SHE_ActionIndicators

\* mutant: the five structural kinds only (scene header, transition,
\* character name, parenthetical, basmala), without the action-verb test
SHE_IsNamedStructural(s) ==
  \/ ScenePrefixEnd(s) > 0
  \/ SHE_IsTransition(s)
  \/ SHE_IsCharacterName(s)
  \/ SHE_IsParenthetical(s)
  \/ Includes(s, Basmala)

SHE_IsNewStructuralElement(s) ==
  \/ ScenePrefixEnd(s) > 0
  \/ SHE_IsTransition(s)
  \/ SHE_IsCharacterName(s)
  \/ Includes(s, Basmala)
  \/ SHE_IsParenthetical(s)
  \/ SHE_IsLikelyAction(s)

\* group 3 of /^(mashhad)\s*(\d+)\s*[-–—]?\s*(.*)/ for a line that matches
SHE_RestOfLine(s) ==
  LET q == SkipSpaces(s, ScenePrefixEnd(s))
      r == IF q <= Len(s) /\ s[q] \in Dashes THEN q + 1 ELSE q
  IN SubSeq(s, SkipSpaces(s, r), Len(s))

\* the place found on the header line itself
SHE_InlinePlace(restOfLine) ==
  LET t == TimeLocationIndex(restOfLine)
  IN IF t > 0
     THEN Trim(StripLeadingDash(SubSeq(restOfLine, 1, t - 1)
                                  \o SubSeq(restOfLine, t + 1, Len(restOfLine))))
     ELSE Trim(restOfLine)

RECURSIVE SHE_Aggregate(_, _, _, _, _)
\* the while loop from nextLineIndex = i; taken lists the indices of the
\* lines whose text went into place
SHE_Aggregate(ls, i, place, consumedLines, taken) ==
  IF i < Len(ls)
  THEN LET nextLine == Trim(LineAt(ls, i))
       IN IF nextLine = <<>> \/ SHE_IsNewStructuralElement(nextLine)
          THEN [place |-> place, consumedLines |-> consumedLines, taken |-> taken]
          ELSE SHE_Aggregate(ls, i + 1,
                             (IF place # <<>> THEN place \o PlaceSeparator ELSE <<>>)
                               \o nextLine,
                             consumedLines + 1, Append(taken, i))
  ELSE [place |-> place, consumedLines |-> consumedLines, taken |-> taken]

\* SceneHeaderExtractor.extractSceneHeaderParts(lines, startIndex); reading
\* lines[startIndex] at a negative index gives undefined, and .trim() of it
\* throws a TypeError
SceneHeaderExtractor_extractSceneHeaderParts(ls, start) ==
  IF start >= Len(ls) THEN [kind |-> "null"]
  ELSE IF start < 0 THEN [kind |-> "throw"]
  ELSE LET firstLine == Trim(LineAt(ls, start))
       IN IF ScenePrefixEnd(firstLine) = 0 THEN [kind |-> "null"]
          ELSE LET e == ScenePrefixEnd(firstLine)
                   d == SkipSpaces(firstLine, 2)
                   restOfLine == SHE_RestOfLine(firstLine)
                   t == TimeLocationIndex(restOfLine)
                   r == SHE_Aggregate(ls, start + 1, SHE_InlinePlace(restOfLine),
                                      1, <<>>)
               IN [kind |-> "parts",
                   sceneNum |-> <<firstLine[1], " ">> \o SubSeq(firstLine, d, e - 1),
                   timeLocation |-> IF t > 0 THEN <<restOfLine[t]>> ELSE <<>>,
                   place |-> r.place,
                   consumedLines |-> r.consumedLines,
                   taken |-> r.taken]

\* ------------------------------------------ screenplay-line-classifier
\* normalizeLine: the alphabet has no eastern digit, tashkeel, direction mark
\* or tab, which leaves s.replace(/\s+$/g, '')
NormalizeLine(s) == TrimEnd(s)

RECURSIVE DropSpacesAroundDash(_, _)
\* s.replace(/\s*-\s*/g, '-'), from position i
DropSpacesAroundDash(s, i) ==
  IF i > Len(s) THEN <<>>
  ELSE IF /\ IsSpace(s[i])
          /\ \/ \E j \in (i + 1)..Len(s) :
                  s[j] = "-" /\ \A k \in i..(j - 1) : IsSpace(s[k])
             \/ \E j \in 1..(i - 1) :
                  s[j] = "-" /\ \A k \in (j + 1)..i : IsSpace(s[k])
       THEN DropSpacesAroundDash(s, i + 1)
       ELSE <<s[i]>> \o DropSpacesAroundDash(s, i + 1)

RECURSIVE CompressSpaces(_, _)
\* s.replace(/\s+/g, ' '), from position i
CompressSpaces(s, i) ==
  IF i > Len(s) THEN <<>>
  ELSE IF IsSpace(s[i])
       THEN (IF i > 1 /\ IsSpace(s[i - 1]) THEN <<>> ELSE <<" ">>)
              \o CompressSpaces(s, i + 1)
       ELSE <<s[i]>> \o CompressSpaces(s, i + 1)

\* normalizeSeparators: dashes, commas and colons become "-", the white
\* space around "-" goes, white space is compressed, the ends are trimmed
NormalizeSeparators(s) ==
  LET s1 == [i \in 1..Len(s) |-> IF s[i] \in {"endash", ":"} THEN "-" ELSE s[i]]
  IN Trim(CompressSpaces(DropSpacesAroundDash(s1, 1), 1))

\* s.replace(/^\s*-\s*/, '')
StripLeadingHyphen(s) ==
  LET q == SkipSpaces(s, 1)
  IN IF q <= Len(s) /\ s[q] = "-" THEN SubSeq(s, SkipSpaces(s, q + 1), Len(s)) ELSE s

IsBlank(line) == line = <<>> \/ Trim(line) = <<>>

\* BASMALA_RE
IsBasmala(line) == Trim(NormalizeLine(line)) = <<Basmala>>

\* SCENE_PREFIX_RE, which allows white space before the keyword
IsSceneHeaderStart(line) == ScenePrefixEnd(TrimStart(NormalizeLine(line))) > 0

\* TRANSITION_RE: the whole line is one of the phrases
IsTransition(line) ==
  FilterBoolean(SplitWs(NormalizeLine(line)))
    \in {<< <<"qata">> >>, << <<"ila">> >>, << <<"qata">>, <<"ila">> >>}

\* CHARACTER_RE: an Arabic letter, at most 40 more Arabic letters or spaces,
\* an optional colon
IsCharacterLine(line) ==
  LET s == Trim(NormalizeLine(line))
      core == TrimEnd(IF Len(s) >= 1 /\ s[Len(s)] = ":"
                      THEN SubSeq(s, 1, Len(s) - 1) ELSE s)
  IN /\ ~IsSceneHeaderStart(line)
     /\ ~IsTransition(line)
     /\ Len(core) >= 1
     /\ core[1] \in ArabicWords
     /\ \A i \in 1..Len(core) : core[i] \in ArabicWords \/ IsSpace(core[i])
     /\ LineLength(core) <= 41

\* PARENTHETICAL_RE
IsParentheticalLine(line) ==
  LET s == Trim(NormalizeLine(line))
  IN Len(s) >= 2 /\ s[1] = "(" /\ s[Len(s)] = ")"

\* parseSceneHeaderFromLine for a line that starts a scene header
ParseSceneHeaderFromLine(rawLine) ==
  LET line == NormalizeSeparators(NormalizeLine(rawLine))
      e == ScenePrefixEnd(line)
      d == SkipSpaces(line, 2)
      q == SkipSpaces(line, e)
      r == IF q <= Len(line) /\ line[q] \in Dashes \cup {":"}
           THEN SkipSpaces(line, q + 1) ELSE q
      rest == SubSeq(line, r, Len(line))
      t == TimeLocationIndex(rest)
  IN [sceneNum |-> <<"mashhad", " ">> \o SubSeq(line, d, e - 1),
      timeLocation |-> IF t > 0 THEN <<rest[t]>> ELSE <<>>,
      placeInline |-> IF t > 0
                      THEN Trim(StripLeadingHyphen(SubSeq(rest, t + 1, Len(rest))))
                      ELSE Trim(rest)]

\* the test that stops the aggregation at a new element
IsNewElement(next) ==
  \/ IsSceneHeaderStart(next)
  \/ IsTransition(next)
  \/ IsCharacterLine(next)
  \/ IsParentheticalLine(next)
  \/ IsBasmala(next)

\* mutant: a blank line ends the aggregation
AggregateStep_BlankEnds(next) ==
  IF IsBlank(next) \/ IsNewElement(next) THEN "stop" ELSE "place"

\* one turn of the while loop of extractSceneHeaderParts on the normalized
\* line: skip it as blank, stop at it, or take it as place
AggregateStep(next) ==
  IF IsBlank(next) THEN "blank"
  ELSE IF IsNewElement(next) THEN "stop"
  ELSE "place"

RECURSIVE Aggregate_BlanksNotCounted(_, _, _, _, _)
\* mutant: a blank line is skipped without being counted
Aggregate_BlanksNotCounted(ls, i, place, consumed, taken) ==
  IF i < Len(ls)
  THEN LET next == NormalizeLine(LineAt(ls, i))
           step == AggregateStep(next)
           normalizedNext == Trim(StripLeadingHyphen(NormalizeSeparators(next)))
       IN IF step = "blank"
          THEN Aggregate_BlanksNotCounted(ls, i + 1, place, consumed, taken)
          ELSE IF step = "stop"
          THEN [place |-> place, consumed |-> consumed, taken |-> taken]
          ELSE Aggregate_BlanksNotCounted(ls, i + 1,
                         (IF normalizedNext = <<>> THEN place
                          ELSE IF place # <<>>
                               THEN place \o PlaceSeparator \o normalizedNext
                               ELSE normalizedNext),
                         consumed + 1, Append(taken, i))
  ELSE [place |-> place, consumed |-> consumed, taken |-> taken]

RECURSIVE Aggregate(_, _, _, _, _)
\* the while loop from i; taken lists the indices counted in consumed
Aggregate(ls, i, place, consumed, taken) ==
  IF i < Len(ls)
  THEN LET next == NormalizeLine(LineAt(ls, i))
           step == AggregateStep(next)
           normalizedNext == Trim(StripLeadingHyphen(NormalizeSeparators(next)))
       IN IF step = "blank"
          THEN Aggregate(ls, i + 1, place, consumed + 1, Append(taken, i))
          ELSE IF step = "stop"
          THEN [place |-> place, consumed |-> consumed, taken |-> taken]
          ELSE Aggregate(ls, i + 1,
                         (IF normalizedNext = <<>> THEN place
                          ELSE IF place # <<>>
                               THEN place \o PlaceSeparator \o normalizedNext
                               ELSE normalizedNext),
                         consumed + 1, Append(taken, i))
  ELSE [place |-> place, consumed |-> consumed, taken |-> taken]

\* extractSceneHeaderParts(lines, startIndex) of the line classifier:
\* lines[startIndex] ?? '' is '' outside the array
ExtractSceneHeaderParts(ls, start) ==
  LET first == IF 0 <= start /\ start < Len(ls) THEN LineAt(ls, start) ELSE <<>>
  IN IF ScenePrefixEnd(NormalizeSeparators(NormalizeLine(first))) = 0
     THEN [kind |-> "null"]
     ELSE LET parsed == ParseSceneHeaderFromLine(first)
              r == Aggregate(ls, start + 1, parsed.placeInline, 1, <<>>)
          IN [kind |-> "parts",
              sceneNum |-> parsed.sceneNum,
              timeLocation |-> parsed.timeLocation,
              place |-> Trim(r.place),
              consumedLines |-> r.consumed,
              taken |-> r.taken]

\* --------------------------------------------------- DialogueDetector
\* the words of the detector's lists that the alphabet has
DD_CommonWords == {"maa", "ila", "yajlis", Basmala}
DD_ActionIndicators == {"yajlis"}

DD_ContainsCommonWords(s) == \E w \in DD_CommonWords : Includes(s, w)

DD_IsLikelyAction(line) ==
  LET s == Trim(line) IN Len(s) >= 1 /\ s[1] \in DD_ActionIndicators

\* trimmed.split(/\s+/).filter(w => w.length > 0).length; the basmala is
\* four words
WordCount(s) ==
  Len(FilterBoolean(SplitWs(s))) + 3 * Cardinality({i \in 1..Len(s) : s[i] = Basmala})

DD_IsCharacterName(line) ==
  LET trimmed == Trim(line)
      e == NameRunEnd(trimmed, 1)
  IN \/ /\ e > 1
        /\ e <= Len(trimmed)
        /\ trimmed[e] = ":"
        /\ ~DD_ContainsCommonWords(SubSeq(trimmed, 1, e - 1))
     \/ /\ WordCount(trimmed) <= 3
        /\ LineLength(trimmed) <= 30
        /\ Len(trimmed) >= 1
        /\ \A i \in 1..Len(trimmed) : trimmed[i] \in ArabicWords \/ IsSpace(trimmed[i])
        /\ ~DD_ContainsCommonWords(trimmed)
        /\ ~DD_IsLikelyAction(trimmed)

DD_IsParenthetical(s) == Len(s) >= 2 /\ s[1] = "(" /\ s[Len(s)] = ")"

\* the patterns /qata\s+ila/, /qata\./ and /intiqal/ of transitionPatterns
DD_IsTransition(s) ==
  \/ Includes(s, "intiqal")
  \/ \E i \in 1..Len(s) :
       /\ s[i] = "qata"
       /\ i < Len(s)
       /\ \/ s[i + 1] = "."
          \/ /\ IsSpace(s[i + 1])
             /\ SkipSpaces(s, i + 1) <= Len(s)
             /\ s[SkipSpaces(s, i + 1)] = "ila"

DD_IsStructuralElement(s) ==
  \/ ScenePrefixEnd(s) > 0
  \/ DD_IsTransition(s)
  \/ DD_IsCharacterName(s)
  \/ Includes(s, Basmala)

\* mutant: no line continues the dialogue after a blank line
DD_IsLikelyContinuation_Never(s) == FALSE

\* mutant: every line that is not structural continues the dialogue
DD_IsLikelyContinuation_Always(s) == ~DD_IsStructuralElement(s)

DD_IsLikelyContinuation(s) ==
  /\ ~DD_IsStructuralElement(s)
  /\ ~DD_IsLikelyAction(s)
  /\ LineLength(s) < 200

RECURSIVE NextNonEmpty(_, _)
\* while (i < lines.length && !lines[i].trim()) i++
NextNonEmpty(ls, i) ==
  IF i < Len(ls) /\ Trim(LineAt(ls, i)) = <<>> THEN NextNonEmpty(ls, i + 1) ELSE i

RECURSIVE DD_Loop(_, _, _, _, _)
\* the while loop from currentIndex; taken lists the indices of the lines
\* pushed on parentheticals or dialogueLines
DD_Loop(ls, currentIndex, parentheticals, dialogueLines, taken) ==
  LET done == [parentheticals |-> parentheticals, dialogueLines |-> dialogueLines,
               currentIndex |-> currentIndex, taken |-> taken]
  IN IF currentIndex >= Len(ls) THEN done
     ELSE LET line == Trim(LineAt(ls, currentIndex))
          IN IF line = <<>>
             THEN LET nextNonEmptyIndex == NextNonEmpty(ls, currentIndex + 1)
                  IN IF nextNonEmptyIndex >= Len(ls) THEN done
                     ELSE LET nextNonEmptyLine == Trim(LineAt(ls, nextNonEmptyIndex))
                          IN IF DD_IsStructuralElement(nextNonEmptyLine) THEN done
                             ELSE IF DD_IsLikelyContinuation(nextNonEmptyLine)
                             THEN DD_Loop(ls, nextNonEmptyIndex, parentheticals,
                                          dialogueLines, taken)
                             ELSE done
             ELSE IF DD_IsStructuralElement(line) THEN done
             ELSE IF DD_IsParenthetical(line)
             THEN DD_Loop(ls, currentIndex + 1, Append(parentheticals, line),
                          dialogueLines, Append(taken, currentIndex))
             ELSE DD_Loop(ls, currentIndex + 1, parentheticals,
                          Append(dialogueLines, line), Append(taken, currentIndex))

\* firstLine.match(/:/): the position of the first colon, 0 without one
ColonIndex(s) ==
  IF Includes(s, ":")
  THEN CHOOSE i \in 1..Len(s) : s[i] = ":" /\ \A j \in 1..(i - 1) : s[j] # ":"
  ELSE 0

\* mutant: endIndex is the index at which the loop stopped
EndIndex_AtStop(currentIndex) == currentIndex

\* endIndex: currentIndex - 1
EndIndex(currentIndex) == currentIndex - 1

\* DialogueDetector.extractDialogueBlock(lines, startIndex); .trim() of the
\* undefined lines[startIndex] of a negative index throws a TypeError
DialogueDetector_extractDialogueBlock(ls, start) ==
  IF start >= Len(ls) THEN [kind |-> "null"]
  ELSE IF start < 0 THEN [kind |-> "throw"]
  ELSE LET firstLine == Trim(LineAt(ls, start))
           c == ColonIndex(firstLine)
           characterName == IF c > 1 THEN Trim(SubSeq(firstLine, 1, c - 1))
                            ELSE firstLine
           dialogueOnFirstLine ==
             IF c > 1 THEN Trim(SubSeq(firstLine, c + 1, Len(firstLine))) ELSE <<>>
           onFirst == dialogueOnFirstLine # <<>>
           r == DD_Loop(ls, start + 1,
                        IF onFirst /\ DD_IsParenthetical(dialogueOnFirstLine)
                        THEN <<dialogueOnFirstLine>> ELSE <<>>,
                        IF onFirst /\ ~DD_IsParenthetical(dialogueOnFirstLine)
                        THEN <<dialogueOnFirstLine>> ELSE <<>>,
                        <<>>)
       IN IF ~DD_IsCharacterName(firstLine) THEN [kind |-> "null"]
          ELSE [kind |-> "block", characterName |-> characterName,
                parentheticals |-> r.parentheticals,
                dialogueLines |-> r.dialogueLines,
                startIndex |-> start, endIndex |-> EndIndex(r.currentIndex),
                taken |-> r.taken]

\* --------------------------------------------------------- rendering
\* A text is the array of the lines text.split('\n') gives; the empty text is
\* the array of one empty line.
IsEmptyText(ls) == ls = << <<>> >>

\* the serialization of one character of a text node, or of the characters
\* of an entity that an earlier serialization wrote
EscapeChar(c) ==
  CASE c = "<" -> "&lt;"
    [] c = ">" -> "&gt;"
    [] c = "&" -> "&amp;"
    [] c = NBSP -> "&nbsp;"
    [] c = "&lt;" -> "&amp;lt;"
    [] c = "&gt;" -> "&amp;gt;"
    [] c = "&amp;" -> "&amp;amp;"
    [] c = "&nbsp;" -> "&amp;nbsp;"
    [] OTHER -> c

\* mutant: the text goes into the markup as it is
EscapeHtml_Raw(text) == text

\* escapeHtml: the text is made the text content of an element, and the
\* element's innerHTML is read back
EscapeHtml(text) == [k \in 1..Len(text) |-> EscapeChar(text[k])]

\* One piece of markup appended to formattedHTML: the template of class cls
\* with the escaped texts put in its places.  line is the index of the line
\* whose classification made the piece, taken the indices of the further
\* lines absorbed with that line.
Piece(cls, texts, line, taken) ==
  [cls |-> cls, parts |-> [k \in 1..Len(texts) |-> EscapeHtml(texts[k])],
   line |-> line, taken |-> taken]

\* line.replace(/:\s*$/, '').trim() of a trimmed line
StripFinalColon(line) ==
  IF Len(line) >= 1 /\ line[Len(line)] = ":"
  THEN Trim(SubSeq(line, 1, Len(line) - 1)) ELSE line

\* ------------------------------- parseAndFormat, dialogue collected inline
\* isBasmala: the whole line is the basmala
PF1_IsBasmala(line) == Trim(line) = <<Basmala>>

\* isTransition: the whole line is one of the phrases, 'qata ila' with one
\* space
PF1_IsTransition(line) ==
  Trim(line) \in {<<"qata">>, <<"ila">>, <<"qata", " ", "ila">>}

\* isCharacterName: an Arabic letter, at most 40 more Arabic letters or
\* spaces, and a colon
PF1_IsCharacterName(line) ==
  LET s == Trim(line)
      core == TrimEnd(SubSeq(s, 1, Len(s) - 1))
  IN /\ Len(s) >= 2
     /\ s[Len(s)] = ":"
     /\ Len(core) >= 1
     /\ \A k \in 1..Len(core) : core[k] \in ArabicWords \/ IsSpace(core[k])
     /\ LineLength(core) <= 41

\* the test of the inner loop for a new structural element
PF1_IsStructural(nextLine) ==
  \/ PF1_IsBasmala(nextLine)
  \/ ScenePrefixEnd(nextLine) > 0
  \/ PF1_IsTransition(nextLine)
  \/ PF1_IsCharacterName(nextLine)

RECURSIVE PF1_DialogueLoop(_, _, _)
\* while (i < lines.length && lines[i].trim()): the value of i and the
\* output when the loop is left, after 'i--; break' at a structural line
PF1_DialogueLoop(ls, i, out) ==
  IF i < Len(ls) /\ Trim(LineAt(ls, i)) # <<>>
  THEN LET nextLine == Trim(LineAt(ls, i))
       IN IF PF1_IsStructural(nextLine)
          THEN [i |-> i - 1, out |-> out]
          ELSE PF1_DialogueLoop(ls, i + 1,
                 Append(out, Piece(IF IsParenthetical(nextLine)
                                   THEN "parenthetical" ELSE "dialogue",
                                   <<nextLine>>, i, <<>>)))
  ELSE [i |-> i, out |-> out]

RECURSIVE PF1_Main(_, _, _, _)
\* The for loop from index i.  A turn either moves i forward or leaves it
\* where it was, and in the second case every later turn does the same: a
\* run that has not ended after lines.length turns never ends (the string
\* grows until its length is no longer valid).
PF1_Main(ls, i, out, fuel) ==
  IF i >= Len(ls) THEN [kind |-> "html", emitted |-> out]
  ELSE IF fuel = 0 THEN [kind |-> "diverges", emitted |-> out]
  ELSE LET line == Trim(LineAt(ls, i))
       IN IF line = <<>>
          THEN PF1_Main(ls, i + 1, Append(out, Piece("blank", <<>>, i, <<>>)), fuel - 1)
          ELSE IF PF1_IsBasmala(line)
          THEN PF1_Main(ls, i + 1, Append(out, Piece("basmala", <<line>>, i, <<>>)),
                        fuel - 1)
          ELSE IF ScenePrefixEnd(line) > 0
          THEN LET p == SceneHeaderExtractor_extractSceneHeaderParts(ls, i)
               IN PF1_Main(ls, i + (p.consumedLines - 1) + 1,
                           Append(out, Piece("scene-header",
                                             <<p.sceneNum, p.timeLocation, p.place>>,
                                             i, p.taken)),
                           fuel - 1)
          ELSE IF PF1_IsTransition(line)
          THEN PF1_Main(ls, i + 1, Append(out, Piece("transition", <<line>>, i, <<>>)),
                        fuel - 1)
          ELSE IF PF1_IsCharacterName(line)
          THEN LET r == PF1_DialogueLoop(ls, i + 1,
                          Append(out, Piece("character", <<StripFinalColon(line)>>,
                                            i, <<>>)))
               IN PF1_Main(ls, (r.i - 1) + 1, r.out, fuel - 1)
          ELSE IF IsParenthetical(line)
          THEN PF1_Main(ls, i + 1,
                        Append(out, Piece("parenthetical", <<line>>, i, <<>>)), fuel - 1)
          ELSE PF1_Main(ls, i + 1, Append(out, Piece("action", <<line>>, i, <<>>)),
                        fuel - 1)

\* parseAndFormat(text) of the inline variant
ParseAndFormatInline(ls) ==
  IF IsEmptyText(ls) THEN [kind |-> "html", emitted |-> <<>>]
  ELSE PF1_Main(ls, 0, <<>>, Len(ls) + 1)

\* ------------------------------- DialogueDetector.generateDialogueHTML
\* the pieces of a dialogue block that starts at line i: the name, every
\* dialogue line, then every parenthetical
DD_GenerateDialogueHTML(block, i) ==
  <<Piece("character-name", <<block.characterName>>, i, block.taken)>>
    \o [k \in 1..Len(block.dialogueLines) |->
          Piece("dialogue-text", <<block.dialogueLines[k]>>, i, <<>>)]
    \o [k \in 1..Len(block.parentheticals) |->
          Piece("parenthetical", <<block.parentheticals[k]>>, i, <<>>)]

\* ---------------------- parseAndFormat, dialogue by the DialogueDetector
\* isTransition of screenplay-parser.ts: the eleven patterns of
\* SceneHeaderExtractor.isTransition
PF2_IsTransition(line) == SHE_IsTransition(line)

\* the place of a scene header: from the header line, or else the next
\* line when that line is not blank, no scene header, no character name and
\* no transition
PF2_PlaceOnNextLine(ls, i, place) ==
  /\ place = <<>>
  /\ i + 1 < Len(ls)
  /\ Trim(LineAt(ls, i + 1)) # <<>>
  /\ ScenePrefixEnd(Trim(LineAt(ls, i + 1))) = 0
  /\ ~DD_IsCharacterName(Trim(LineAt(ls, i + 1)))
  /\ ~PF2_IsTransition(Trim(LineAt(ls, i + 1)))

\* the pieces of a dialogue block: the name, the parentheticals, then the
\* dialogue lines
PF2_BlockPieces(block, i) ==
  <<Piece("character", <<block.characterName>>, i, block.taken)>>
    \o [k \in 1..Len(block.parentheticals) |->
          Piece("parenthetical", <<block.parentheticals[k]>>, i, <<>>)]
    \o [k \in 1..Len(block.dialogueLines) |->
          Piece("dialogue", <<block.dialogueLines[k]>>, i, <<>>)]

RECURSIVE PF2_Main(_, _, _)
\* the for loop from index i
PF2_Main(ls, i, out) ==
  IF i >= Len(ls) THEN [kind |-> "html", emitted |-> out]
  ELSE LET line == Trim(LineAt(ls, i))
       IN IF line = <<>>
          THEN PF2_Main(ls, i + 1, Append(out, Piece("blank", <<>>, i, <<>>)))
          ELSE IF Includes(line, Basmala)
          THEN PF2_Main(ls, i + 1, Append(out, Piece("basmala", <<line>>, i, <<>>)))
          ELSE IF ScenePrefixEnd(line) > 0
          THEN LET e == ScenePrefixEnd(line)
                   d == SkipSpaces(line, 2)
                   restOfLine == SHE_RestOfLine(line)
                   t == TimeLocationIndex(restOfLine)
                   inline == IF t > 0 THEN SHE_InlinePlace(restOfLine) ELSE restOfLine
                   onNext == PF2_PlaceOnNextLine(ls, i, inline)
                   j == IF onNext THEN i + 1 ELSE i
               IN PF2_Main(ls, j + 1,
                    Append(out,
                      Piece("scene-header",
                            << <<line[1], " ">> \o SubSeq(line, d, e - 1),
                               IF t > 0 THEN <<restOfLine[t]>> ELSE <<>>,
                               IF onNext THEN Trim(LineAt(ls, j)) ELSE inline >>,
                            i, IF onNext THEN <<j>> ELSE <<>>)))
          ELSE IF DD_IsCharacterName(line)
          THEN LET dialogueBlock == DialogueDetector_extractDialogueBlock(ls, i)
               IN IF dialogueBlock.kind = "block"
                  THEN PF2_Main(ls, dialogueBlock.endIndex + 1,
                                out \o PF2_BlockPieces(dialogueBlock, i))
                  ELSE PF2_Main(ls, i + 1, Append(out, Piece("action", <<line>>, i, <<>>)))
          ELSE IF PF2_IsTransition(line)
          THEN PF2_Main(ls, i + 1, Append(out, Piece("transition", <<line>>, i, <<>>)))
          ELSE PF2_Main(ls, i + 1, Append(out, Piece("action", <<line>>, i, <<>>)))

\* parseAndFormat(text) of screenplay-parser.ts
ParseAndFormat(ls) ==
  IF IsEmptyText(ls) THEN [kind |-> "html", emitted |-> <<>>]
  ELSE PF2_Main(ls, 0, <<>>)

\* ----------------------------------------------------- classifyDocument
\* /^[\s]*\(|\)[\s]*$/: the line begins with '(' or ends with ')'
CD_HasLooseParen(line) ==
  \/ SkipSpaces(line, 1) <= Len(line) /\ line[SkipSpaces(line, 1)] = "("
  \/ TrimEnd(line) # <<>> /\ TrimEnd(line)[Len(TrimEnd(line))] = ")"

\* ARABIC_RANGE_RE.test(line) && !SYRIAC_RANGE_RE.test(line)
CD_LooksArabic(line) ==
  /\ \E k \in 1..Len(line) : line[k] \in ArabicWords
  /\ ~\E k \in 1..Len(line) : line[k] \in SyriacWords

\* trimLooseParens
TrimLooseParens(s) ==
  LET t == Trim(s)
      t1 == IF t # <<>> /\ t[1] = "(" THEN TrimStart(Tail(t)) ELSE t
      t2 == IF t1 # <<>> /\ t1[Len(t1)] = ")"
            THEN TrimEnd(SubSeq(t1, 1, Len(t1) - 1)) ELSE t1
  IN Trim(t2)

\* isLikelyParentheticalSemantics; the alphabet has no Latin letter and none
\* of the marks that end a heavy sentence
IsLikelyParentheticalSemantics(raw) ==
  LET t == TrimLooseParens(NormalizeLine(raw))
  IN /\ t # <<>>
     /\ LineLength(t) <= 45
     /\ ~\E k \in 1..Len(t) : t[k] \in SyriacWords

\* no speaker
NoCharacter == <<>>

\* currentCharacter and lastDialogueContext, with the index of the line
\* that named the speaker
CD_NoSpeaker == [currentCharacter |-> NoCharacter, nameLine |-> 0 - 1, context |-> "null"]

\* mutant: a blank line leaves the speaker and the context as they are
CD_AfterBlank_KeepsSpeaker(st) == st

\* the state after a blank line
CD_AfterBlank(st) == CD_NoSpeaker

\* mutant: an Arabic line in parentheses is a translation only directly
\* after the Syriac line
CD_IsTranslation_AfterSyriacOnly(line, st) ==
  /\ st.currentCharacter # NoCharacter
  /\ st.context = "syriac"
  /\ CD_LooksArabic(line)

\* currentCharacter && (lastDialogueContext === 'syriac' ||
\* lastDialogueContext === 'translation') && looksArabic
CD_IsTranslation(line, st) ==
  /\ st.currentCharacter # NoCharacter
  /\ st.context \in {"syriac", "translation"}
  /\ CD_LooksArabic(line)

\* the ExtractResult before the first line; kinds records, for every line
\* in turn, the kind it was given and the line that began its unit
CD_Empty ==
  [basmala |-> <<>>, sceneHeader1 |-> <<>>, sceneHeader2 |-> <<>>, sceneHeader3 |-> <<>>,
   action |-> <<>>, character |-> <<>>, parenthetical |-> <<>>, dialogue |-> <<>>,
   transition |-> <<>>, kinds |-> <<>>]

\* n lines from the line at index unit on are of the given kind
Mark(out, n, kind, unit) ==
  [out EXCEPT !.kinds = @ \o [k \in 1..n |-> [kind |-> kind, unit |-> unit]]]

\* out[field].push(value) when the value is not empty
PushIf(out, field, value) ==
  IF value = <<>> THEN out ELSE [out EXCEPT ![field] = Append(@, value)]

RECURSIVE CD_Loop(_, _, _, _)
\* the for loop from index idx
CD_Loop(ls, idx, out, st) ==
  IF idx >= Len(ls) THEN out
  ELSE LET raw == LineAt(ls, idx)
           line == NormalizeLine(raw)
           parts == ExtractSceneHeaderParts(ls, idx)
           inParens == IsParentheticalLine(line) \/ CD_HasLooseParen(line)
           hasSyriac == \E k \in 1..Len(line) : line[k] \in SyriacWords
       IN IF IsBlank(line)
          THEN CD_Loop(ls, idx + 1, Mark(out, 1, "blank", idx), CD_AfterBlank(st))
          ELSE IF IsBasmala(line)
          THEN CD_Loop(ls, idx + 1,
                       [Mark(out, 1, "basmala", idx) EXCEPT !.basmala = Trim(raw)],
                       CD_NoSpeaker)
          ELSE IF IsSceneHeaderStart(line) /\ parts.kind = "parts"
          THEN CD_Loop(ls, idx + (parts.consumedLines - 1) + 1,
                       PushIf(PushIf(PushIf(Mark(out, parts.consumedLines,
                                                 "scene-header", idx),
                                            "sceneHeader1", parts.sceneNum),
                                     "sceneHeader2", parts.timeLocation),
                              "sceneHeader3", parts.place),
                       CD_NoSpeaker)
          ELSE IF IsTransition(line)
          THEN CD_Loop(ls, idx + 1,
                       [Mark(out, 1, "transition", idx)
                          EXCEPT !.transition = Append(@, Trim(raw))],
                       CD_NoSpeaker)
          ELSE IF IsCharacterLine(line)
          THEN CD_Loop(ls, idx + 1,
                       [Mark(out, 1, "character", idx)
                          EXCEPT !.character = Append(@, StripFinalColon(Trim(raw)))],
                       [currentCharacter |-> StripFinalColon(Trim(raw)),
                        nameLine |-> idx, context |-> "null"])
          ELSE IF inParens /\ CD_IsTranslation(line, st)
          THEN CD_Loop(ls, idx + 1,
                       [Mark(out, 1, "translation", st.nameLine)
                          EXCEPT !.dialogue =
                            Append(@, [character |-> st.currentCharacter,
                                       text |-> TrimLooseParens(raw),
                                       isTranslation |-> TRUE, lang |-> "ar",
                                       line |-> idx, nameLine |-> st.nameLine])],
                       [st EXCEPT !.context = "translation"])
          ELSE IF inParens /\ IsLikelyParentheticalSemantics(raw)
          THEN CD_Loop(ls, idx + 1,
                       [Mark(out, 1, "parenthetical",
                             IF st.currentCharacter # NoCharacter THEN st.nameLine ELSE idx)
                          EXCEPT !.parenthetical = Append(@, Trim(raw))],
                       st)
          ELSE IF st.currentCharacter # NoCharacter
          THEN CD_Loop(ls, idx + 1,
                       [Mark(out, 1, "dialogue", st.nameLine)
                          EXCEPT !.dialogue =
                            Append(@, [character |-> st.currentCharacter,
                                       text |-> Trim(raw),
                                       isTranslation |-> FALSE,
                                       lang |-> IF hasSyriac THEN "syc" ELSE "ar",
                                       line |-> idx, nameLine |-> st.nameLine])],
                       [st EXCEPT !.context = IF hasSyriac THEN "syriac" ELSE "null"])
          ELSE CD_Loop(ls, idx + 1,
                       [Mark(out, 1, "action", idx) EXCEPT !.action = Append(@, Trim(raw))],
                       CD_NoSpeaker)

\* classifyDocument(lines)
ClassifyDocument(ls) == CD_Loop(ls, 0, CD_Empty, CD_NoSpeaker)

\* ------------------------------------------------------- analyzeContent
NewLine == "\n"

\* isBasmala of the flat classifier
AC_IsBasmala(line) == Trim(line) = <<Basmala>>

\* isTransition: the line begins with one of the transition words
AC_IsTransition(line) ==
  LET q == SkipSpaces(line, 1)
  IN q <= Len(line) /\ line[q] \in {"qata", "intiqal"}

\* isCharacterName: the regular expression of the inline parseAndFormat
AC_IsCharacterName(line) == PF1_IsCharacterName(line)

\* isSceneHeader
AC_IsSceneHeader(line) == ScenePrefixEnd(line) > 0

\* isNewElement
AC_IsNewElement(line) ==
  \/ line = <<>>
  \/ AC_IsBasmala(line)
  \/ AC_IsSceneHeader(line)
  \/ AC_IsTransition(line)
  \/ AC_IsCharacterName(line)

Element(type, content, elementLines) ==
  [type |-> type, content |-> content, lines |-> elementLines]

\* mutant: the line taken into a scene header is classified again
AC_AfterHeader_NoSkip(i, absorbed) == i

\* the index of the last line of a scene header: i++ when the next line was
\* taken into it
AC_AfterHeader(i, absorbed) == IF absorbed THEN i + 1 ELSE i

RECURSIVE AC_DialogueLoop(_, _, _, _)
\* while (i + 1 < lines.length) of the character branch
AC_DialogueLoop(ls, i, dialogueLines, block) ==
  IF i + 1 < Len(ls)
  THEN LET nextLine == Trim(LineAt(ls, i + 1))
       IN IF nextLine = <<>> \/ AC_IsNewElement(nextLine)
          THEN [i |-> i, dialogueLines |-> dialogueLines, block |-> block]
          ELSE AC_DialogueLoop(ls, i + 1, Append(dialogueLines, nextLine),
                               block \o <<NewLine>> \o nextLine)
  ELSE [i |-> i, dialogueLines |-> dialogueLines, block |-> block]

RECURSIVE AC_Loop(_, _, _)
\* the for loop from index i
AC_Loop(ls, i, elements) ==
  IF i >= Len(ls) THEN elements
  ELSE LET trimmed == Trim(LineAt(ls, i))
       IN IF trimmed = <<>>
          THEN AC_Loop(ls, i + 1, Append(elements, Element("action", <<>>, << <<>> >>)))
          ELSE IF AC_IsBasmala(trimmed)
          THEN AC_Loop(ls, i + 1, Append(elements, Element("basmala", trimmed, <<trimmed>>)))
          ELSE IF AC_IsSceneHeader(trimmed)
          THEN LET absorbed == /\ i + 1 < Len(ls)
                               /\ Trim(LineAt(ls, i + 1)) # <<>>
                               /\ ~AC_IsNewElement(Trim(LineAt(ls, i + 1)))
                   nextLine == Trim(LineAt(ls, i + 1))
               IN AC_Loop(ls, AC_AfterHeader(i, absorbed) + 1,
                          Append(elements,
                                 IF absorbed
                                 THEN Element("scene-header",
                                              trimmed \o <<NewLine>> \o nextLine,
                                              <<trimmed, nextLine>>)
                                 ELSE Element("scene-header", trimmed, <<trimmed>>)))
          ELSE IF AC_IsTransition(trimmed)
          THEN AC_Loop(ls, i + 1,
                       Append(elements, Element("transition", trimmed, <<trimmed>>)))
          ELSE IF AC_IsCharacterName(trimmed)
          THEN LET r == AC_DialogueLoop(ls, i, <<trimmed>>, trimmed)
               IN AC_Loop(ls, r.i + 1,
                          Append(elements, Element("dialogue", r.block, r.dialogueLines)))
          ELSE AC_Loop(ls, i + 1, Append(elements, Element("action", trimmed, <<trimmed>>)))

\* analyzeContent(text)
AnalyzeContent(ls) == AC_Loop(ls, 0, <<>>)

\* ------------------------------------------------------------- state
Eng == [host |-> host, pages |-> pages, current |-> current, pageNo |-> pageNo]

SetEngine(e) ==
  /\ host' = e.host
  /\ pages' = e.pages
  /\ current' = e.current
  /\ pageNo' = e.pageNo

Init ==
  /\ variant \in {"basic", "advanced"}
  /\ pageHeight \in 0..MaxPageH
  /\ host = NewEngine.host
  /\ pages = NewEngine.pages
  /\ current = NewEngine.current
  /\ pageNo = NewEngine.pageNo
  /\ ops = 0
  /\ log = <<>>
  /\ call = [op |-> "new"]
  /\ lines = <<>>
  /\ startIndex = 0
  /\ result = [op |-> "none"]

\* engine.appendBlock(build) with a node of any measured size
DoAppendBlock ==
  /\ ops < MaxOps
  /\ \E h \in 0..MaxBlockH, mt \in {0}, mb \in BlockMargins :
       LET node == [id |-> <<ops + 1, 0>>, cls |-> "block", text |-> <<>>,
                    height |-> h, marginTop |-> mt, marginBottom |-> mb]
       IN /\ SetEngine(AppendBlock(Eng, node, pageHeight))
          /\ call' = [op |-> "appendBlock", node |-> node,
                      pagesBefore |-> Len(pages),
                      childrenBefore |-> Len(Children(Eng))]
  /\ ops' = ops + 1
  /\ log' = Append(log, ops + 1)
  /\ UNCHANGED <<variant, pageHeight>>
  /\ UNCHANGED extractVars

\* engine.appendTextParagraph(rawText, className)
DoAppendTextParagraph ==
  /\ ops < MaxOps
  /\ \E rawText \in Texts, className \in ClassNames :
       LET r == AppendTextParagraph(variant, Eng, rawText, className, pageHeight,
                                    ops + 1, 0, MaxDepth)
       IN /\ SetEngine(r.eng)
          /\ call' = [op |-> "appendTextParagraph", rawText |-> rawText,
                      className |-> className,
                      calls |-> r.calls, ended |-> r.ended,
                      pagesBefore |-> Len(pages)]
  /\ ops' = ops + 1
  /\ log' = Append(log, ops + 1)
  /\ UNCHANGED <<variant, pageHeight>>
  /\ UNCHANGED extractVars

\* engine.clear()
DoClear ==
  /\ SetEngine(ClearEngine(Eng))
  /\ call' = [op |-> "clear", pagesBefore |-> Len(pages)]
  /\ log' = <<>>
  /\ UNCHANGED <<variant, pageHeight, ops>>
  /\ UNCHANGED extractVars

\* createPagedHTML: a PaginationEngine of its own, nothing appended to it yet,
\* then every element in turn
DoCreatePagedHTML ==
  /\ variant = "basic"
  /\ call.op = "new"
  /\ \E elements \in ElementLists :
       /\ SetEngine(CreatePagedHTML(elements, pageHeight))
       /\ call' = [op |-> "createPagedHTML", elements |-> elements]
       /\ ops' = Len(elements)
       /\ log' = [i \in 1..Len(elements) |-> i]
  /\ UNCHANGED <<variant, pageHeight>>
  /\ UNCHANGED extractVars

\* engine.appendDialogue(character, dialogue, parenthetical) of the advanced
\* engine
DoAppendDialogue ==
  /\ variant = "advanced"
  /\ ops < MaxOps
  /\ \E character \in ShortTexts, parenthetical \in ShortTexts, dialogue \in Texts :
       /\ SetEngine(AppendDialogue(Eng, character, dialogue, parenthetical,
                                   pageHeight, ops + 1))
       /\ call' = [op |-> "appendDialogue", character |-> character,
                   dialogue |-> dialogue, parenthetical |-> parenthetical,
                   pagesBefore |-> Len(pages)]
  /\ ops' = ops + 1
  /\ log' = Append(log, ops + 1)
  /\ UNCHANGED <<variant, pageHeight>>
  /\ UNCHANGED extractVars

Next ==
  \/ DoAppendBlock
  \/ DoAppendTextParagraph
  \/ DoClear
  \/ DoCreatePagedHTML

Spec == Init /\ [][Next]_vars

\* the AdvancedPaginationEngine alone, with the calls that build a dialogue
InitAdvanced == Init /\ variant = "advanced"

NextAdvanced ==
  \/ DoAppendBlock
  \/ DoAppendDialogue
  \/ DoClear

SpecAdvanced == InitAdvanced /\ [][NextAdvanced]_vars

\* ------------------------------------------------------ the extractors
\* The lines a screenplay is drawn from when a scene header is extracted:
\* a header with its place inline, a blank line, a place line, a narrative
\* sentence, a sentence led by an action verb, a name with its colon, a
\* short line of Arabic words only, a transition.
SceneLines ==
  { <<"mashhad", " ", "1", " ", "-", " ", "dakhili-nahar", " ", "endash", " ", "qasr">>,
    <<>>,
    <<"qasr", ".">>,
    <<"ahmad", " ", "yajlis", ".">>,
    <<"yajlis", ".">>,
    <<"ahmad", ":">>,
    <<"qasr">>,
    <<"qata", " ", "ila">> }

\* The lines a screenplay is drawn from when a dialogue block is extracted:
\* a name with its colon, a name with dialogue on its line, a blank line, a
\* dialogue line, a parenthetical, a sentence led by an action verb, a line
\* of 200 characters, a scene header.
DialogueLines ==
  { <<"ahmad", ":">>,
    <<"ahmad", ":", " ", "qasr", ".">>,
    <<>>,
    <<"qasr", ".">>,
    <<"(", "qasr", ")">>,
    <<"yajlis", ".">>,
    <<LongWord>>,
    <<"mashhad", " ", "1">> }

LineArrays(sample) == UNION {[1..n -> sample] : n \in 0..MaxLines}

\* the start indices tried: before the array, inside it, and past the end of
\* the shorter arrays
StartIndices == {0 - 1, 0, 1}

InitExtract(sample) ==
  /\ variant = "basic"
  /\ pageHeight = 0
  /\ host = NewEngine.host
  /\ pages = NewEngine.pages
  /\ current = NewEngine.current
  /\ pageNo = NewEngine.pageNo
  /\ ops = 0
  /\ log = <<>>
  /\ call = [op |-> "new"]
  /\ lines \in LineArrays(sample)
  /\ startIndex \in StartIndices
  /\ result = [op |-> "none"]

\* SceneHeaderExtractor.extractSceneHeaderParts(lines, startIndex)
DoSceneHeaderExtractor ==
  /\ result' = [op |-> "SceneHeaderExtractor.extractSceneHeaderParts",
                out |-> SceneHeaderExtractor_extractSceneHeaderParts(lines, startIndex)]
  /\ UNCHANGED <<lines, startIndex>>
  /\ UNCHANGED engineVars

\* extractSceneHeaderParts(lines, startIndex) of the line classifier
DoExtractSceneHeaderParts ==
  /\ result' = [op |-> "extractSceneHeaderParts",
                out |-> ExtractSceneHeaderParts(lines, startIndex)]
  /\ UNCHANGED <<lines, startIndex>>
  /\ UNCHANGED engineVars

\* DialogueDetector.extractDialogueBlock(lines, startIndex)
DoExtractDialogueBlock ==
  /\ result' = [op |-> "extractDialogueBlock",
                out |-> DialogueDetector_extractDialogueBlock(lines, startIndex)]
  /\ UNCHANGED <<lines, startIndex>>
  /\ UNCHANGED engineVars

InitSceneHeader == InitExtract(SceneLines)

NextSceneHeader ==
  \/ DoSceneHeaderExtractor
  \/ DoExtractSceneHeaderParts

\* the two scene header extractors on the same lines
SpecSceneHeader == InitSceneHeader /\ [][NextSceneHeader]_vars

InitDialogueBlock == InitExtract(DialogueLines)

\* ------------------------------------------------------- the documents
\* The lines of the texts that are parsed and formatted: a name with its
\* colon, a sentence, a blank line, the transition 'qata', the word
\* 'intiqal' on a line of its own, a line of characters that are special in
\* HTML, a scene header without a place, a name with such characters after
\* its colon.
ParseLines ==
  { <<"ahmad", ":">>,
    <<"qasr", ".">>,
    <<>>,
    <<"qata">>,
    <<"intiqal">>,
    <<"<", "&", Quote, ">">>,
    <<"mashhad", " ", "1">>,
    <<"ahmad", ":", " ", "<", "qasr", ">">> }

\* the arrays text.split('\n') can give: at least one line
TextArrays(sample) ==
  {ls \in LineArrays(sample) : Len(ls) >= 1 /\ Len(ls) <= MaxTextLines}

InitLines(arrays) ==
  /\ variant = "basic"
  /\ pageHeight = MaxPageH
  /\ host = NewEngine.host
  /\ pages = NewEngine.pages
  /\ current = NewEngine.current
  /\ pageNo = NewEngine.pageNo
  /\ ops = 0
  /\ log = <<>>
  /\ call = [op |-> "new"]
  /\ lines \in arrays
  /\ startIndex = 0
  /\ result = [op |-> "none"]

\* parseAndFormat(text), the variant that collects the dialogue inline
DoParseAndFormatInline ==
  /\ Len(lines) >= 1
  /\ result' = [op |-> "parseAndFormat.inline", out |-> ParseAndFormatInline(lines)]
  /\ UNCHANGED <<lines, startIndex>>
  /\ UNCHANGED engineVars

\* parseAndFormat(text) of screenplay-parser.ts
DoParseAndFormat ==
  /\ Len(lines) >= 1
  /\ result' = [op |-> "parseAndFormat", out |-> ParseAndFormat(lines)]
  /\ UNCHANGED <<lines, startIndex>>
  /\ UNCHANGED engineVars

\* DialogueDetector.generateDialogueHTML of the block that
\* extractDialogueBlock(lines, startIndex) returned
DoGenerateDialogueHTML ==
  /\ DialogueDetector_extractDialogueBlock(lines, startIndex).kind = "block"
  /\ result' = [op |-> "generateDialogueHTML",
                out |-> [kind |-> "html",
                         emitted |-> DD_GenerateDialogueHTML(
                           DialogueDetector_extractDialogueBlock(lines, startIndex),
                           startIndex)]]
  /\ UNCHANGED <<lines, startIndex>>
  /\ UNCHANGED engineVars

NextDialogueBlock ==
  \/ DoExtractDialogueBlock
  \/ DoSceneHeaderExtractor
  \/ DoGenerateDialogueHTML
  \/ DoParseAndFormat

\* the dialogue extractor and the two renderers of its blocks, and the scene
\* header extractor on the same lines
SpecDialogueBlock == InitDialogueBlock /\ [][NextDialogueBlock]_vars

\* The lines of the documents that are classified: a name, a name with its
\* colon, a line in Syriac letters, an Arabic line in parentheses, a line in
\* parentheses without a letter, a blank line, a sentence, a scene header, a
\* transition.
ClassifyLines ==
  { <<"ahmad">>,
    <<"ahmad", ":">>,
    <<"shlama">>,
    <<"(", "qasr", ")">>,
    <<"(", "1", ")">>,
    <<>>,
    <<"qasr", ".">>,
    <<"mashhad", " ", "1">>,
    <<"qata">> }

\* classifyDocument(lines)
DoClassifyDocument ==
  /\ result' = [op |-> "classifyDocument", out |-> ClassifyDocument(lines)]
  /\ UNCHANGED <<lines, startIndex>>
  /\ UNCHANGED engineVars

\* analyzeContent(text)
DoAnalyzeContent ==
  /\ Len(lines) >= 1
  /\ result' = [op |-> "analyzeContent", out |-> AnalyzeContent(lines)]
  /\ UNCHANGED <<lines, startIndex>>
  /\ UNCHANGED engineVars

InitClassify == InitLines(LineArrays(ClassifyLines))

NextClassify ==
  \/ DoClassifyDocument
  \/ DoAnalyzeContent

\* the rich and the flat classifier on the same lines
SpecClassify == InitClassify /\ [][NextClassify]_vars

\* The element handed to appendElement.  The host lays every line of a
\* scene header, dialogue, basmala or transition block out on a line of its
\* own.
ElementOfText(element) ==
  [type |-> element.type, content |-> element.content,
   height |-> IF element.type \in BlockTypes THEN LineH * Len(element.lines) ELSE 0]

RECURSIVE BlocksOf(_, _)
\* the blocks of the pages of engine e, from the children h of its host on
BlocksOf(e, h) ==
  IF h = <<>> THEN <<>>
  ELSE IF Head(h).kind = "page"
       THEN e.pages[Head(h).ref].content \o BlocksOf(e, Tail(h))
       ELSE BlocksOf(e, Tail(h))

\* host.innerHTML: the markup of every block with its text content
\* serialized; line is the number of the element the block was built from
InnerHTML(e) ==
  [k \in 1..Len(BlocksOf(e, e.host)) |->
     Piece(BlocksOf(e, e.host)[k].cls, <<BlocksOf(e, e.host)[k].text>>,
           BlocksOf(e, e.host)[k].id[1], <<>>)]

\* createPagedHTML(content): analyzeContent, then every element appended to
\* a PaginationEngine of its own, then the markup of the host
DoCreatePagedHTMLOfText ==
  /\ Len(lines) >= 1
  /\ LET elements == [k \in 1..Len(AnalyzeContent(lines)) |->
                        ElementOfText(AnalyzeContent(lines)[k])]
         e == CreatePagedHTML(elements, pageHeight)
     IN /\ SetEngine(e)
        /\ call' = [op |-> "createPagedHTML", elements |-> elements]
        /\ ops' = Len(elements)
        /\ log' = [i \in 1..Len(elements) |-> i]
        /\ result' = [op |-> "createPagedHTML",
                      out |-> [kind |-> "html", emitted |-> InnerHTML(e)]]
  /\ UNCHANGED <<variant, pageHeight, lines, startIndex>>

\* ----------------------------------------- PaginationEngine of ruler.ts
\* the elements createPages is given: only estimatedHeight is read
CP_Heights == 0..(MaxBlockH + 1)

CP_Element(h) ==
  [type |-> "action", content |-> <<"a">>, estimatedHeight |-> h, lineCount |-> 1]

CP_ElementLists == UNION {[1..n -> {CP_Element(h) : h \in CP_Heights}] : n \in 0..(MaxElems + 2)}

CP_NewPage(pageNumber) ==
  [pageNumber |-> pageNumber, elements |-> <<>>, height |-> 0, overflow |-> FALSE]

\* mutant: a page is never completed before the last element
CP_StartsNewPage_Never(currentPage, element, max) == FALSE

\* willOverflow && currentPage.elements.length > 0
CP_StartsNewPage(currentPage, element, max) ==
  /\ currentPage.height + element.estimatedHeight > max
  /\ Len(currentPage.elements) > 0

\* currentPage.height > this.maxPageHeight * 0.95
CP_NearLimit(height, max) == 100 * height > 95 * max

RECURSIVE CP_Loop(_, _, _, _, _)
\* for (const element of elements), from element k on
CP_Loop(elements, k, pgs, currentPage, max) ==
  IF k > Len(elements)
  THEN IF Len(currentPage.elements) > 0 THEN Append(pgs, currentPage) ELSE pgs
  ELSE IF CP_StartsNewPage(currentPage, elements[k], max)
       THEN CP_Loop(elements, k + 1, Append(pgs, currentPage),
                    [pageNumber |-> Len(pgs) + 2,
                     elements |-> <<elements[k]>>,
                     height |-> elements[k].estimatedHeight,
                     overflow |-> FALSE],
                    max)
       ELSE CP_Loop(elements, k + 1, pgs,
                    [currentPage EXCEPT
                       !.elements = Append(@, elements[k]),
                       !.height = @ + elements[k].estimatedHeight,
                       !.overflow =
                         @ \/ CP_NearLimit(currentPage.height + elements[k].estimatedHeight,
                                           max)],
                    max)

\* createPages(elements)
CreatePages(elements, max) ==
  LET pgs == CP_Loop(elements, 1, <<>>, CP_NewPage(1), max)
  IN IF Len(pgs) > 0 THEN pgs ELSE <<CP_NewPage(1)>>

\* ------------------------- generatePaginatedHTML of the ruler's engine
\* A4 height minus the top and bottom margins, in points
PE_MaxPageHeight == 842 - 72 - 72

PE_IsTransition(line) == SHE_IsTransition(line)

PE_IsCharacterName(line) == PF1_IsCharacterName(line)

PE_IsParenthetical(line) == Len(line) >= 2 /\ line[1] = "(" /\ line[Len(line)] = ")"

PE_IsNewElement(line) ==
  \/ ScenePrefixEnd(line) > 0
  \/ PE_IsTransition(line)
  \/ PE_IsCharacterName(line)
  \/ Includes(line, Basmala)

PE_Element(type, content, estimatedHeight, lineCount) ==
  [type |-> type, content |-> content, estimatedHeight |-> estimatedHeight,
   lineCount |-> lineCount]

\* the next line is taken into the element of line i
PE_TakesNext(ls, i) ==
  /\ i + 1 < Len(ls)
  /\ Trim(LineAt(ls, i + 1)) # <<>>
  /\ ~PE_IsNewElement(Trim(LineAt(ls, i + 1)))

RECURSIVE PE_DialogueLoop(_, _, _, _, _)
\* the while loop that collects a dialogue block
PE_DialogueLoop(ls, i, dialogueContent, dialogueHeight, lineCount) ==
  IF PE_TakesNext(ls, i)
  THEN LET dialogueLine == Trim(LineAt(ls, i + 1))
       IN PE_DialogueLoop(ls, i + 1, dialogueContent \o <<NewLine>> \o dialogueLine,
                          dialogueHeight + (IF PE_IsParenthetical(dialogueLine)
                                            THEN 16 ELSE 18),
                          lineCount + 1)
  ELSE [i |-> i, dialogueContent |-> dialogueContent,
        dialogueHeight |-> dialogueHeight, lineCount |-> lineCount]

RECURSIVE PE_Loop(_, _, _)
\* the for loop of the engine's analyzeContent from index i
PE_Loop(ls, i, elements) ==
  IF i >= Len(ls) THEN elements
  ELSE LET line == Trim(LineAt(ls, i))
       IN IF line = <<>>
          THEN PE_Loop(ls, i + 1, Append(elements, PE_Element("action", <<>>, 12, 1)))
          ELSE IF line = <<Basmala>>
          THEN PE_Loop(ls, i + 1, Append(elements, PE_Element("basmala", line, 36, 1)))
          ELSE IF ScenePrefixEnd(line) > 0
          THEN IF PE_TakesNext(ls, i)
               THEN PE_Loop(ls, i + 2,
                            Append(elements,
                                   PE_Element("scene-header",
                                              line \o <<NewLine>> \o Trim(LineAt(ls, i + 1)),
                                              2 * 18 + 20, 2)))
               ELSE PE_Loop(ls, i + 1,
                            Append(elements, PE_Element("scene-header", line, 18 + 20, 1)))
          ELSE IF PE_IsTransition(line)
          THEN PE_Loop(ls, i + 1, Append(elements, PE_Element("transition", line, 24, 1)))
          ELSE IF PE_IsCharacterName(line)
          THEN LET r == PE_DialogueLoop(ls, i, line, 18, 1)
               IN PE_Loop(ls, r.i + 1,
                          Append(elements,
                                 PE_Element("dialogue", r.dialogueContent,
                                            r.dialogueHeight + 15, r.lineCount)))
          ELSE LET lineCount == (LineLength(line) + 79) \div 80
               IN PE_Loop(ls, i + 1,
                          Append(elements,
                                 PE_Element("action", line, lineCount * 18 + 6, lineCount)))

\* analyzeContent(text) of the engine
PE_AnalyzeContent(ls) == PE_Loop(ls, 0, <<>>)

RECURSIVE SplitLinesFrom(_, _, _)
SplitLinesFrom(s, i, cur) ==
  IF i > Len(s) THEN <<cur>>
  ELSE IF s[i] = NewLine THEN <<cur>> \o SplitLinesFrom(s, i + 1, <<>>)
  ELSE SplitLinesFrom(s, i + 1, Append(cur, s[i]))

\* content.split('\n')
SplitLines(s) == SplitLinesFrom(s, 1, <<>>)

\* line.replace(':', ''): the first colon is taken out
RemoveFirstColon(s) ==
  IF ColonIndex(s) = 0 THEN s
  ELSE SubSeq(s, 1, ColonIndex(s) - 1) \o SubSeq(s, ColonIndex(s) + 1, Len(s))

\* a piece whose texts go into the markup as they are given
RawPiece(cls, parts, line, taken) ==
  [cls |-> cls, parts |-> parts, line |-> line, taken |-> taken]

\* formatSceneHeader(content) for element n; content was escaped by the caller
PE_FormatSceneHeader(content, n) ==
  LET ls == SplitLines(content)
      firstLine == ls[1]
      secondLine == IF Len(ls) >= 2 THEN ls[2] ELSE <<>>
  IN IF ScenePrefixEnd(firstLine) > 0
     THEN Piece("scene-header",
                << <<firstLine[1], " ">>
                     \o SubSeq(firstLine, SkipSpaces(firstLine, 2),
                               ScenePrefixEnd(firstLine) - 1),
                   SHE_RestOfLine(firstLine),
                   secondLine >>,
                n, <<>>)
     ELSE Piece("scene-header-container", <<content>>, n, <<>>)

\* formatDialogue(content) for element n; content was escaped by the caller;
\* taken is the number of the line in the block
PE_FormatDialogue(content, n) ==
  [k \in 1..Len(SplitLines(content)) |->
     LET line == Trim(SplitLines(content)[k])
     IN IF k = 1 THEN Piece("character-name", <<RemoveFirstColon(line)>>, n, <<k>>)
        ELSE IF PE_IsParenthetical(line) THEN Piece("parenthetical", <<line>>, n, <<k>>)
        ELSE Piece("dialogue-text", <<line>>, n, <<k>>)]

\* elementToHTML(element) for element n
PE_ElementToHTML(element, n) ==
  LET content == EscapeHtml(element.content)
  IN IF element.type = "scene-header" THEN <<PE_FormatSceneHeader(content, n)>>
     ELSE IF element.type = "dialogue" THEN PE_FormatDialogue(content, n)
     ELSE <<RawPiece(element.type, <<content>>, n, <<>>)>>

RECURSIVE PE_PageElements(_)
\* the elements in the order in which the pages are written
PE_PageElements(pgs) ==
  IF pgs = <<>> THEN <<>> ELSE Head(pgs).elements \o PE_PageElements(Tail(pgs))

RECURSIVE PE_Html(_, _)
PE_Html(elements, n) ==
  IF n > Len(elements) THEN <<>>
  ELSE PE_ElementToHTML(elements[n], n) \o PE_Html(elements, n + 1)

\* generatePaginatedHTML(text): the elements are the ones that were analysed
PE_GeneratePaginatedHTML(ls) ==
  [kind |-> "html",
   elements |-> PE_AnalyzeContent(ls),
   emitted |-> PE_Html(PE_PageElements(CreatePages(PE_AnalyzeContent(ls),
                                                   PE_MaxPageHeight)), 1)]

\* generatePaginatedHTML(text) of the PaginationEngine of ruler.ts
DoGeneratePaginatedHTML ==
  /\ Len(lines) >= 1
  /\ result' = [op |-> "generatePaginatedHTML", out |-> PE_GeneratePaginatedHTML(lines)]
  /\ UNCHANGED <<lines, startIndex>>
  /\ UNCHANGED engineVars

InitParse == InitLines(TextArrays(ParseLines))

NextParse ==
  \/ DoParseAndFormatInline
  \/ DoParseAndFormat
  \/ DoAnalyzeContent
  \/ DoClassifyDocument
  \/ DoCreatePagedHTMLOfText
  \/ DoGeneratePaginatedHTML

\* the four classification paths and createPagedHTML on the same text
SpecParse == InitParse /\ [][NextParse]_vars

\* ------------------------------------------------------------ reading
RECURSIVE ReadFrom(_)
\* the blocks of the pages of the host, page by page, top to bottom
ReadFrom(h) ==
  IF h = <<>> THEN <<>>
  ELSE IF Head(h).kind = "page"
       THEN pages[Head(h).ref].content \o ReadFrom(Tail(h))
       ELSE ReadFrom(Tail(h))

ReadBlocks == ReadFrom(host)

\* the whitespace-delimited words of a text
WordsOf(text) == FilterBoolean(SplitWs(text))

RECURSIVE ConcatWords(_)
ConcatWords(blocks) ==
  IF blocks = <<>> THEN <<>>
  ELSE WordsOf(Head(blocks).text) \o ConcatWords(Tail(blocks))

\* the blocks that append call n left on a sequence of blocks
BlocksOfCall(blocks, n) == SelectSeq(blocks, LAMBDA b : b.id[1] = n)

\* the step is a call of op
IsCall(op) == ops' = ops + 1 /\ call'.op = op

\* the outer height of the block built from the first k words
PrefixHeight(words, k, className) == OuterHeight(Build(words, k, className, <<0, 0>>))

\* ---------------------------------------------------------------- C1
\* C1: appendBlock moves the new block to a newly created page if and only
\* if the current page held at least one block before the call and the
\* block's outer height exceeds the capacity left before the call (content
\* height minus the safety margin minus the heights already placed);
\* otherwise the block stays on the current page and no page is created.
\* Stated for blocks of positive height, for which it makes no difference
\* whether a negative capacity counts as zero.
C1_MovedIffExceedsCapacityBefore ==
  [][(IsCall("appendBlock") /\ OuterHeight(call'.node) > 0) =>
       LET node == call'.node
           capacity == pageHeight - FONT_READY_MARGIN - SumOuter(Children(Eng))
           moved == /\ Len(pages') = Len(pages) + 1
                    /\ current' = Len(pages')
                    /\ pages'[current'].content = <<node>>
                    /\ pages'[current] = pages[current]
           stayed == /\ current' = current
                     /\ pages' = [pages EXCEPT ![current].content = Append(@, node)]
       IN IF Len(Children(Eng)) >= 1 /\ OuterHeight(node) > capacity
          THEN moved ELSE stayed]_vars

\* ---------------------------------------------------------------- C2
\* C2: after appendTextParagraph of a paragraph each of whose words fits
\* alone on an empty page, no page that received a fragment of it holds more
\* than the content-region height.
C2_ParagraphNeverOverflows ==
  (/\ call.op = "appendTextParagraph"
   /\ WordsOf(call.rawText) # <<>>
   /\ \A k \in 1..Len(WordsOf(call.rawText)) :
        PrefixHeight(<<WordsOf(call.rawText)[k]>>, 1, call.className) <= pageHeight)
  => \A i \in 1..Len(pages) :
       BlocksOfCall(pages[i].content, ops) # <<>>
         => SumOuter(pages[i].content) <= pageHeight

\* ---------------------------------------------------------------- C3
\* C3: appendTextParagraph leaves on the page it starts on (the current page,
\* or the page it opens when the current one has no room left) the longest
\* prefix of the words whose block fits in the space remaining there, when
\* such a prefix of at least one word exists.
C3_LongestFittingPrefixOnCurrentPage ==
  [][IsCall("appendTextParagraph") =>
       LET words == WordsOf(call'.rawText)
           rem0 == RemainingHeight(Eng, pageHeight)
           target == IF rem0 <= 0 THEN Len(pages) + 1 ELSE current
           room == IF rem0 <= 0
                   THEN RemainingHeight(AddPage(Eng, FALSE), pageHeight)
                   ELSE rem0
           fitting == {k \in 1..Len(words) :
                         PrefixHeight(words, k, call'.className) <= room}
           longest == CHOOSE k \in fitting : \A j \in fitting : j <= k
       IN fitting # {} =>
            /\ target <= Len(pages')
            /\ ConcatWords(BlocksOfCall(pages'[target].content, ops'))
                 = SliceTo(words, longest)]_vars

\* ---------------------------------------------------------------- C4
\* C4: the words of the blocks appendTextParagraph produced, read in page
\* order, are exactly the whitespace-delimited words of the paragraph.
C4_WordsPreserved ==
  call.op = "appendTextParagraph"
    => ConcatWords(BlocksOfCall(ReadBlocks, ops)) = WordsOf(call.rawText)

C4_Witness ==
  /\ call.op = "appendTextParagraph"
  /\ Len(WordsOf(call.rawText)) >= 2
  /\ BlocksOfCall(ReadBlocks, ops) # <<>>

\* ---------------------------------------------------------------- C5
\* C5: appendTextParagraph ends for every paragraph and every page height:
\* it makes no more invocations than the paragraph has words (one for an
\* empty paragraph) and creates at most two pages per invocation.
C5_ParagraphTerminates ==
  call.op = "appendTextParagraph"
    => LET n == Len(WordsOf(call.rawText))
       IN /\ call.ended
          /\ call.calls <= (IF n = 0 THEN 1 ELSE n)
          /\ Len(pages) - call.pagesBefore <= 2 * call.calls

C5_Witness ==
  /\ call.op = "appendTextParagraph"
  /\ Len(WordsOf(call.rawText)) >= 2
  /\ pageHeight < LineH
  /\ call.ended

\* ---------------------------------------------------------------- C6
\* C6: appendBlock on a page holding no block creates no page, whatever the
\* block's height: the block stays alone on that page.
C6_NoNewPageFromEmptyPage ==
  (call.op = "appendBlock" /\ call.childrenBefore = 0)
    => /\ Len(pages) = call.pagesBefore
       /\ pages[current].content = <<call.node>>

C6_Witness ==
  /\ call.op = "appendBlock"
  /\ call.childrenBefore = 0
  /\ OuterHeight(call.node) > pageHeight
  /\ pages[current].content = <<call.node>>

\* ---------------------------------------------------------------- C7
\* C7: the blocks read page by page are the blocks of the append calls since
\* construction or clear, each once, in the order of the calls; after
\* createPagedHTML they are the blocks of the elements in the elements' order.
C7_ReadingOrderIsAppendOrder ==
  /\ Len(ReadBlocks) = Len(log)
  /\ \A i \in 1..Len(log) : ReadBlocks[i].id = <<log[i], 0>>
  /\ call.op = "createPagedHTML" =>
       /\ Len(ReadBlocks) = Len(call.elements)
       /\ \A i \in 1..Len(call.elements) :
            LET el == call.elements[i]
                b == ReadBlocks[i]
            IN /\ b.id = <<i, 0>>
               /\ IF el.type \in BlockTypes
                  THEN b.cls = el.type /\ b.height = el.height
                  ELSE b.cls \in {"action", "parenthetical"}
                       /\ (el.content # <<>> => WordsOf(b.text) = WordsOf(el.content))

C7_Witness ==
  /\ call.op = "createPagedHTML"
  /\ Len(call.elements) >= 2
  /\ call.elements[1] # call.elements[2]
  /\ Len(pages) >= 2

\* ---------------------------------------------------------------- C8
\* C8: every page other than the last one holds at least one block.
C8_NoEmptyPageLeftBehind ==
  \A i \in 1..(Len(pages) - 1) : pages[i].content # <<>>

C10_ClearGivesFreshEngine ==
  call.op = "clear"
    => /\ Len(pages) = 1
       /\ pages[1] = [no |-> 1, content |-> <<>>]
       /\ host = <<[kind |-> "page", ref |-> 1]>>
       /\ pageNo = 1
       /\ current = 1
       /\ Eng = NewEngine

C10_Witness ==
  /\ call.op = "clear"
  /\ call.pagesBefore >= 2

\* --------------------------------------------------------------- C11
\* the page that holds the block with this id
PageOfBlock(id) ==
  CHOOSE i \in 1..Len(pages) : \E j \in 1..Len(pages[i].content) :
    pages[i].content[j].id = id

\* the id of the block read right after the block with this id
BlockAfter(id) ==
  LET k == CHOOSE k \in 1..Len(ReadBlocks) : ReadBlocks[k].id = id
  IN ReadBlocks[k + 1].id

\* C11: after appendDialogue the character-name block and the block that
\* follows it (the parenthetical, or the dialogue text when there is no
\* parenthetical) are on the same page.  Stated for a name and a dialogue
\* that have words and a page on which each block of one line fits alone.
C11_CharacterWithItsDialogue ==
  (/\ call.op = "appendDialogue"
   /\ WordsOf(call.character) # <<>>
   /\ WordsOf(call.dialogue) # <<>>
   /\ LineH + ClassMargin <= pageHeight - FONT_READY_MARGIN)
    => PageOfBlock(<<ops, 0>>) = PageOfBlock(BlockAfter(<<ops, 0>>))

\* ------------------------------------------------- extractor results
IsParts(op) == result.op = op /\ result.out.kind = "parts"

SHE == "SceneHeaderExtractor.extractSceneHeaderParts"
CLS == "extractSceneHeaderParts"

\* the header line of a result, and the place it carries inline, as each
\* extractor reads it
HeaderLine == LineAt(lines, startIndex)

InlinePlace(op) ==
  IF op = SHE THEN SHE_InlinePlace(SHE_RestOfLine(Trim(HeaderLine)))
  ELSE ParseSceneHeaderFromLine(HeaderLine).placeInline

\* what a line gives to place: the trimmed line for SceneHeaderExtractor,
\* the line with its separators normalized for the classifier
Fragment(op, line) ==
  IF op = SHE THEN Trim(line)
  ELSE Trim(StripLeadingHyphen(NormalizeSeparators(NormalizeLine(line))))

RECURSIVE JoinPlace(_)
\* the non-empty fragments joined with ' – '
JoinPlace(fs) ==
  IF fs = <<>> THEN <<>>
  ELSE IF Head(fs) = <<>> THEN JoinPlace(Tail(fs))
  ELSE LET rest == JoinPlace(Tail(fs))
       IN IF rest = <<>> THEN Head(fs) ELSE Head(fs) \o PlaceSeparator \o rest

\* the place made of the inline place and of the n lines after the header
PlaceOfLines(op, n) ==
  JoinPlace(<<InlinePlace(op)>>
              \o [k \in 1..n |-> Fragment(op, LineAt(lines, startIndex + k))])

\* --------------------------------------------------------------- C12
\* C12: whenever either extractSceneHeaderParts returns a result,
\* consumedLines >= 1, startIndex + consumedLines <= lines.length, and the
\* lines absorbed are exactly those at startIndex .. startIndex +
\* consumedLines - 1: those lines and no others were counted, and place is
\* made of the inline place and of those lines, in order.
C12_ConsumedLinesAreTheAbsorbedLines ==
  \A op \in {SHE, CLS} :
    IsParts(op) =>
      LET n == result.out.consumedLines
      IN /\ n >= 1
         /\ startIndex + n <= Len(lines)
         /\ result.out.taken = [k \in 1..(n - 1) |-> startIndex + k]
         /\ result.out.place = PlaceOfLines(op, n - 1)

C12_Witness ==
  /\ IsParts(CLS)
  /\ result.out.consumedLines >= 3
  /\ startIndex + result.out.consumedLines < Len(lines)
  /\ \E k \in 1..2 : IsBlank(LineAt(lines, startIndex + k))

\* --------------------------------------------------------------- C13
\* the line at a zero-based index is one the classifier's aggregation stops at
IsStructuralAt(k) ==
  LET next == NormalizeLine(LineAt(lines, k))
  IN ~IsBlank(next) /\ IsNewElement(next)

\* the index of the first structural line after the header, lines.length
\* when there is none
TerminatingIndex ==
  IF \E k \in (startIndex + 1)..(Len(lines) - 1) : IsStructuralAt(k)
  THEN CHOOSE k \in (startIndex + 1)..(Len(lines) - 1) :
         IsStructuralAt(k) /\ \A j \in (startIndex + 1)..(k - 1) : ~IsStructuralAt(j)
  ELSE Len(lines)

PlaceLineCount ==
  Cardinality({k \in (startIndex + 1)..(TerminatingIndex - 1) :
                 ~IsBlank(LineAt(lines, k))})

\* C14: when the place lines after a scene header are followed by blank
\* lines and then a structural line, the classifier's extractSceneHeaderParts
\* returns consumedLines = 1 + the number of place lines: the blank lines
\* before the terminating line are not counted.
C14_TrailingBlanksNotCounted ==
  (/\ IsParts(CLS)
   /\ TerminatingIndex < Len(lines)
   /\ PlaceLineCount >= 1
   /\ IsBlank(LineAt(lines, TerminatingIndex - 1))
   /\ \A k \in (startIndex + 1)..(startIndex + PlaceLineCount) :
        ~IsBlank(LineAt(lines, k)))
    => result.out.consumedLines = 1 + PlaceLineCount

\* --------------------------------------------------------------- C15
\* the line is a narrative line for the extractor: not blank and none of
\* the five structural kinds
IsNarrative(op, line) ==
  IF op = SHE
  THEN Trim(line) # <<>> /\ ~SHE_IsNamedStructural(Trim(line))
  ELSE ~IsBlank(NormalizeLine(line)) /\ ~IsNewElement(NormalizeLine(line))

\* an action sentence: a narrative line that tells an action
IsActionSentence(op, line) ==
  /\ IsNarrative(op, line)
  /\ \E verb \in SHE_ActionIndicators \cup DD_ActionIndicators : Includes(line, verb)

\* C15: when a scene-header line that carries its place inline is followed
\* directly by an action sentence (a narrative line that is not a scene
\* header, transition, character name, parenthetical or basmala),
\* extractSceneHeaderParts absorbs nothing of it: consumedLines is 1 and
\* place is the inline place.
C15_ActionSentenceNotAbsorbed ==
  \A op \in {SHE, CLS} :
    (/\ IsParts(op)
     /\ InlinePlace(op) # <<>>
     /\ startIndex + 1 < Len(lines)
     /\ IsActionSentence(op, LineAt(lines, startIndex + 1)))
      => /\ result.out.consumedLines = 1
         /\ result.out.place = InlinePlace(op)

\* --------------------------------------------------------------- C16
\* the number of consecutive lines right after the header that are neither
\* blank nor stopped at by the given test
RunLength(Stops(_)) ==
  LET last == Len(lines) - startIndex - 1
      ok(k) == LET t == Trim(LineAt(lines, startIndex + k)) IN t # <<>> /\ ~Stops(t)
  IN CHOOSE n \in 0..last :
       /\ \A k \in 1..n : ok(k)
       /\ n < last => ~ok(n + 1)

SHE_EndsPlaceRun(s) == SHE_IsNamedStructural(s) \/ SHE_IsLikelyAction(s)

DDB == "extractDialogueBlock"

\* C17: for every startIndex outside [0, lines.length), negative or not
\* smaller than the length, SceneHeaderExtractor.extractSceneHeaderParts and
\* DialogueDetector.extractDialogueBlock return null and do not throw.
C17_OutOfRangeGivesNull ==
  (/\ result.op \in {SHE, DDB}
   /\ (startIndex < 0 \/ startIndex >= Len(lines)))
    => result.out.kind = "null"

\* --------------------------------------------------------------- C18
IsBlock == result.op = DDB /\ result.out.kind = "block"

\* the line at a zero-based index is blank for the dialogue extractor
BlankAt(k) == Trim(LineAt(lines, k)) = <<>>

\* C18: for every block extractDialogueBlock returns, startIndex <= endIndex
\* < lines.length, endIndex is the index of the last line absorbed (the
\* character line when nothing else was absorbed), and the line at endIndex
\* is not blank.
C18_EndIndexIsLastAbsorbedLine ==
  IsBlock =>
    LET end == result.out.endIndex
        taken == result.out.taken
    IN /\ startIndex <= end
       /\ end < Len(lines)
       /\ end = (IF taken = <<>> THEN startIndex ELSE taken[Len(taken)])
       /\ \A i \in 1..Len(taken) : startIndex < taken[i] /\ taken[i] <= end
       /\ ~BlankAt(end)

C18_Witness ==
  /\ IsBlock
  /\ result.out.endIndex = startIndex + 2
  /\ BlankAt(startIndex + 1)
  /\ result.out.endIndex + 1 < Len(lines)
  /\ BlankAt(result.out.endIndex + 1)

\* --------------------------------------------------------------- C19
\* no line after the character line is structural for the dialogue extractor
NoStructuralLineAfter ==
  \A k \in (startIndex + 1)..(Len(lines) - 1) :
    BlankAt(k) \/ ~DD_IsStructuralElement(Trim(LineAt(lines, k)))

\* C19 as stated: for a dialogue block after which no structural line
\* occurs anywhere in the rest of the input, endIndex = lines.length - 1.
C19_EndIndexIsLastLine ==
  (IsBlock /\ NoStructuralLineAfter) => result.out.endIndex = Len(lines) - 1

\* the trimmed line does not begin with an action verb and is shorter than
\* 200 characters
ShortAndNotVerbLed(s) ==
  /\ ~(Len(s) >= 1 /\ s[1] \in DD_ActionIndicators)
  /\ LineLength(s) < 200

\* every blank line after the character line is followed, after any further
\* blank lines, by a line that is short and not led by an action verb
EveryBlankRunContinues ==
  \A k \in (startIndex + 1)..(Len(lines) - 1) :
    BlankAt(k) =>
      LET n == NextNonEmpty(lines, k)
      IN n < Len(lines) /\ ShortAndNotVerbLed(Trim(LineAt(lines, n)))

\* C19 as amended: when moreover every blank line of the rest is followed,
\* after any further blank lines, by a line that does not begin with an
\* action verb and is shorter than 200 characters (so the input does not
\* end with a blank line), endIndex = lines.length - 1.
C19_EndIndexIsLastLineWhenBlankRunsContinue ==
  (IsBlock /\ NoStructuralLineAfter /\ EveryBlankRunContinues)
    => result.out.endIndex = Len(lines) - 1

C19_Witness ==
  /\ IsBlock
  /\ NoStructuralLineAfter
  /\ EveryBlankRunContinues
  /\ startIndex + 3 < Len(lines)
  /\ \E k \in (startIndex + 1)..(Len(lines) - 1) : BlankAt(k)
  /\ result.out.endIndex = Len(lines) - 1

\* --------------------------------------------------------------- C20
\* the line at a zero-based index was absorbed into the block
Absorbed(k) == \E i \in 1..Len(result.out.taken) : result.out.taken[i] = k

\* a blank run inside the block begins at b: the line before it is the
\* character line or a line the block absorbed
BlankRunStartsAt(b) ==
  /\ BlankAt(b)
  /\ b - 1 = startIndex \/ Absorbed(b - 1)

\* the block ends before the blank run that begins at b
EndsBefore(b) ==
  /\ result.out.endIndex = b - 1
  /\ \A k \in b..(Len(lines) - 1) : ~Absorbed(k)

\* C20 as stated: when a run of blank lines inside a block is followed by
\* a structural line the block ends before the run; when it is followed by
\* a non-structural line the block resumes with that line.
C20_BlankRunThenStructuralOrResume ==
  IsBlock =>
    \A b \in (startIndex + 1)..(Len(lines) - 1) :
      LET n == NextNonEmpty(lines, b)
      IN (BlankRunStartsAt(b) /\ n < Len(lines)) =>
           IF DD_IsStructuralElement(Trim(LineAt(lines, n)))
           THEN EndsBefore(b)
           ELSE Absorbed(n)

\* C20 as amended: the block resumes with the line after the run when that
\* line is not structural, does not begin with an action verb and is shorter
\* than 200 characters; when the run is followed by any other line, or by
\* the end of the input, the block ends before the run.
C20_BlankRunThenContinuationOrEnd ==
  IsBlock =>
    \A b \in (startIndex + 1)..(Len(lines) - 1) :
      LET n == NextNonEmpty(lines, b)
      IN BlankRunStartsAt(b) =>
           IF /\ n < Len(lines)
              /\ ~DD_IsStructuralElement(Trim(LineAt(lines, n)))
              /\ ShortAndNotVerbLed(Trim(LineAt(lines, n)))
           THEN Absorbed(n) /\ result.out.endIndex >= n
           ELSE EndsBefore(b)

C20_Witness ==
  /\ IsBlock
  /\ startIndex + 3 < Len(lines)
  /\ Absorbed(startIndex + 1)
  /\ BlankAt(startIndex + 2)
  /\ EndsBefore(startIndex + 2)
  /\ ~BlankAt(startIndex + 3)
  /\ ~DD_IsStructuralElement(Trim(LineAt(lines, startIndex + 3)))

\* ------------------------------------------------------ parsed output
PFI == "parseAndFormat.inline"
PFD == "parseAndFormat"

IsHtml(op) == result.op = op /\ result.out.kind = "html"

RECURSIVE LinesEmitted(_)
\* the indices of the lines whose text the pieces carry, in output order
LinesEmitted(ps) ==
  IF ps = <<>> THEN <<>>
  ELSE (IF Head(ps).cls = "blank" THEN <<>> ELSE <<Head(ps).line>> \o Head(ps).taken)
         \o LinesEmitted(Tail(ps))

RECURSIVE NonBlankFrom(_)
\* the indices of the non-blank lines from index k on, ascending
NonBlankFrom(k) ==
  IF k >= Len(lines) THEN <<>>
  ELSE (IF Trim(LineAt(lines, k)) = <<>> THEN <<>> ELSE <<k>>) \o NonBlankFrom(k + 1)

\* --------------------------------------------------------------- C21
\* C21: parseAndFormat (inline variant) returns, and its output carries every
\* non-blank line of the text exactly once and in the order of the text; in
\* particular a dialogue line before a structural line is not put out twice.
C21_EveryLineEmittedOnceInOrder ==
  result.op = PFI =>
    /\ result.out.kind = "html"
    /\ ~IsEmptyText(lines) => LinesEmitted(result.out.emitted) = NonBlankFrom(0)

\* ------------------------------------------------- classified documents
CLD == "classifyDocument"

IsClassified == result.op = CLD

\* the dialogue entries made from the line at index k
EntriesOf(k) == SelectSeq(result.out.dialogue, LAMBDA e : e.line = k)

\* the kind given to the line at index k
KindOf(k) == result.out.kinds[k + 1].kind

\* a line in parentheses with Arabic letters and no Syriac letter
IsArabicInParentheses(s) ==
  LET t == Trim(s)
  IN /\ Len(t) >= 2 /\ t[1] = "(" /\ t[Len(t)] = ")"
     /\ \E k \in 1..Len(t) : t[k] \in ArabicWords
     /\ \A k \in 1..Len(t) : t[k] \notin SyriacWords

\* the line at index k was recorded as one dialogue entry of speaker x, in
\* Syriac letters or as a translation
IsSyriacOrTranslationOf(k, x) ==
  /\ Len(EntriesOf(k)) = 1
  /\ EntriesOf(k)[1].character = x
  /\ EntriesOf(k)[1].isTranslation \/ EntriesOf(k)[1].lang = "syc"

\* --------------------------------------------------------------- C22
\* C22: an Arabic line in parentheses that follows a Syriac dialogue line of
\* the active speaker X, or a translation recorded for X, is recorded as one
\* dialogue entry for X with isTranslation true and lang 'ar', and is not a
\* parenthetical.
C22_ArabicAfterSyriacIsTranslation ==
  IsClassified =>
    \A k \in 1..(Len(lines) - 1) :
      \A x \in {result.out.character[n] : n \in 1..Len(result.out.character)} :
        IsArabicInParentheses(LineAt(lines, k)) /\ IsSyriacOrTranslationOf(k - 1, x)
          => /\ Len(EntriesOf(k)) = 1
             /\ EntriesOf(k)[1].character = x
             /\ EntriesOf(k)[1].isTranslation
             /\ EntriesOf(k)[1].lang = "ar"
             /\ EntriesOf(k)[1].text = TrimLooseParens(LineAt(lines, k))
             /\ KindOf(k) = "translation"
             /\ Len(result.out.parenthetical)
                  = Cardinality({j \in 0..(Len(lines) - 1) : KindOf(j) = "parenthetical"})

\* a name, a Syriac line and two Arabic lines in parentheses, both recorded
\* as translations of the named speaker
C22_Witness ==
  /\ IsClassified
  /\ Len(lines) = 4
  /\ IsCharacterLine(LineAt(lines, 0))
  /\ LineAt(lines, 1) = <<"shlama">>
  /\ IsArabicInParentheses(LineAt(lines, 2))
  /\ IsArabicInParentheses(LineAt(lines, 3))
  /\ Len(result.out.dialogue) = 3
  /\ result.out.dialogue[2].isTranslation
  /\ result.out.dialogue[3].isTranslation
  /\ result.out.dialogue[3].character = StripFinalColon(LineAt(lines, 0))
  /\ result.out.parenthetical = <<>>

\* --------------------------------------------------------------- C23
\* C23: every translation entry comes from a line whose immediately
\* preceding line was recorded as a Syriac dialogue entry or as a translation
\* of the same speaker.
C23_TranslationDirectlyAfterSyriacOrTranslation ==
  IsClassified =>
    \A n \in 1..Len(result.out.dialogue) :
      result.out.dialogue[n].isTranslation
        => /\ result.out.dialogue[n].line >= 1
           /\ IsSyriacOrTranslationOf(result.out.dialogue[n].line - 1,
                                      result.out.dialogue[n].character)

\* --------------------------------------------------------------- C24
\* C24: no dialogue or translation entry belongs to a speaker whose name
\* line is separated from the entry's line by a blank line, and the line
\* directly after a blank line is never recorded as dialogue.
C24_BlankLineClearsSpeaker ==
  IsClassified =>
    /\ \A n \in 1..Len(result.out.dialogue) :
         /\ result.out.dialogue[n].nameLine >= 0
         /\ result.out.dialogue[n].nameLine < result.out.dialogue[n].line
         /\ result.out.dialogue[n].character
              = StripFinalColon(Trim(LineAt(lines, result.out.dialogue[n].nameLine)))
         /\ \A b \in (result.out.dialogue[n].nameLine + 1)..(result.out.dialogue[n].line - 1) :
              ~BlankAt(b)
    /\ \A k \in 1..(Len(lines) - 1) :
         BlankAt(k - 1) => KindOf(k) \notin {"dialogue", "translation"}

\* a name, its dialogue, a blank line, and a sentence recorded as action
C24_Witness ==
  /\ IsClassified
  /\ Len(lines) = 4
  /\ KindOf(0) = "character"
  /\ KindOf(1) = "dialogue"
  /\ BlankAt(2)
  /\ LineAt(lines, 3) = <<"qasr", ".">>
  /\ KindOf(3) = "action"
  /\ Len(result.out.dialogue) = 1

\* --------------------------------------------------------------- C25
\* a line that is blank, a scene header, a transition, the basmala, a name
\* with its colon, or in parentheses
EndsOrInterruptsRun(s) ==
  LET t == Trim(s)
  IN \/ t = <<>>
     \/ ScenePrefixEnd(t) > 0
     \/ IsTransition(t)
     \/ t = <<Basmala>>
     \/ t[Len(t)] = ":"
     \/ t[1] = "("
     \/ t[Len(t)] = ")"

\* C25: while a speaker is active, every following line that is not blank,
\* no scene header, transition, basmala or name with a colon and not in
\* parentheses is recorded as a dialogue entry of that speaker, a short
\* Arabic line without a colon included.
C25_LinesOfActiveSpeakerAreDialogue ==
  IsClassified =>
    \A k \in 1..(Len(lines) - 1) :
      /\ KindOf(k - 1) \in {"character", "dialogue", "translation"}
      /\ ~EndsOrInterruptsRun(LineAt(lines, k))
      => /\ KindOf(k) = "dialogue"
         /\ result.out.kinds[k + 1].unit = result.out.kinds[k].unit

\* --------------------------------------------------------------- C26
ANC == "analyzeContent"

\* C26: in each of the four classification paths a line that satisfies the
\* path's transition predicate is never classified as a character name.
C26_TransitionBeforeCharacterName ==
  /\ IsHtml(PFI) =>
       \A n \in 1..Len(result.out.emitted) :
         result.out.emitted[n].cls = "character"
           => ~PF1_IsTransition(Trim(LineAt(lines, result.out.emitted[n].line)))
  /\ IsHtml(PFD) =>
       \A n \in 1..Len(result.out.emitted) :
         result.out.emitted[n].cls = "character"
           => ~PF2_IsTransition(Trim(LineAt(lines, result.out.emitted[n].line)))
  /\ result.op = ANC =>
       \A n \in 1..Len(result.out) :
         result.out[n].type = "dialogue" => ~AC_IsTransition(result.out[n].lines[1])
  /\ IsClassified =>
       \A k \in 0..(Len(lines) - 1) :
         KindOf(k) = "character" => ~IsTransition(LineAt(lines, k))

\* --------------------------------------------------------------- C27
RECURSIVE FlatKinds(_, _)
\* for every line in turn, the type of the element of analyzeContent it
\* belongs to and the index of the first line of that element
FlatKinds(elements, at) ==
  IF elements = <<>> THEN <<>>
  ELSE [k \in 1..Len(Head(elements).lines) |->
          [kind |-> Head(elements).type, unit |-> at]]
         \o FlatKinds(Tail(elements), at + Len(Head(elements).lines))

\* the element kind that a kind of classifyDocument stands for: the name,
\* the dialogue, the translations and the parentheticals of a speaker are
\* one dialogue unit, a blank line and a parenthetical without a speaker
\* are action
RichKind(k) ==
  LET r == result.out.kinds[k + 1]
  IN IF r.kind \in {"character", "dialogue", "translation"}
     THEN [kind |-> "dialogue", unit |-> r.unit]
     ELSE IF r.kind = "parenthetical"
     THEN [kind |-> IF r.unit = k THEN "action" ELSE "dialogue", unit |-> r.unit]
     ELSE IF r.kind = "blank"
     THEN [kind |-> "action", unit |-> k]
     ELSE r

\* C27: classifyDocument and analyzeContent give every line of a text the
\* same element kind and absorb the same lines into each scene header and
\* each dialogue unit.
C27_FlatAndRichClassifierAgree ==
  IsClassified /\ Len(lines) >= 1 =>
    /\ Len(FlatKinds(AnalyzeContent(lines), 0)) = Len(lines)
    /\ \A k \in 0..(Len(lines) - 1) :
         RichKind(k) = FlatKinds(AnalyzeContent(lines), 0)[k + 1]

\* --------------------------------------------------------------- C28
CPH == "createPagedHTML"

\* the texts put into the markup that op returned
TextsPutOut(op) ==
  {result.out.emitted[n].parts[k] :
     n \in {m \in 1..Len(result.out.emitted) : TRUE},
     k \in {1, 2, 3}}

Rendered == IsHtml(PFI) \/ IsHtml(PFD) \/ IsHtml(CPH)

\* C28 as stated: no <, >, & or quotation mark of the text is in the output
\* of parseAndFormat or createPagedHTML other than escaped.
C28_NoSpecialCharacterRaw ==
  Rendered =>
    \A n \in 1..Len(result.out.emitted) :
      \A k \in 1..Len(result.out.emitted[n].parts) :
        \A j \in 1..Len(result.out.emitted[n].parts[k]) :
          result.out.emitted[n].parts[k][j] \notin HtmlSpecial \cup {Quote}

\* C28: no <, > or & of the text is in the output of parseAndFormat or
\* createPagedHTML other than as &lt;, &gt; or &amp;; a quotation mark is put
\* out as it is, inside the content of an element.
C28_MarkupCharactersEscaped ==
  Rendered =>
    \A n \in 1..Len(result.out.emitted) :
      \A k \in 1..Len(result.out.emitted[n].parts) :
        \A j \in 1..Len(result.out.emitted[n].parts[k]) :
          result.out.emitted[n].parts[k][j] \notin {"<", ">", "&"}

\* a text whose only line is '<&">' came out as '&lt;&amp;"&gt;'
C28_Witness ==
  /\ Rendered
  /\ lines = << <<"<", "&", Quote, ">">> >>
  /\ Len(result.out.emitted) = 1
  /\ result.out.emitted[1].parts = << <<"&lt;", "&amp;", Quote, "&gt;">> >>

\* --------------------------------------------------------------- C29
\* C29: for the empty string parseAndFormat returns the empty string,
\* analyzeContent returns no element and createPagedHTML leaves no block on
\* any page.
C29_EmptyTextGivesNothing ==
  IsEmptyText(lines) =>
    /\ (IsHtml(PFI) \/ IsHtml(PFD)) => result.out.emitted = <<>>
    /\ result.op = ANC => result.out = <<>>
    /\ result.op = CPH =>
         \A p \in DOMAIN pages : pages[p].content = <<>>

\* --------------------------------------------------------------- C30
RECURSIVE LinesOfElements(_)
\* the lines of all elements, concatenated in output order
LinesOfElements(elements) ==
  IF elements = <<>> THEN <<>>
  ELSE Head(elements).lines \o LinesOfElements(Tail(elements))

RECURSIVE JoinedByNewLine(_)
\* lines.join('\n')
JoinedByNewLine(ls) ==
  IF Len(ls) = 1 THEN ls[1]
  ELSE ls[1] \o <<NewLine>> \o JoinedByNewLine(Tail(ls))

\* C30: every input line belongs to exactly one element of analyzeContent:
\* the lines of the elements, concatenated in output order, are the trimmed
\* input lines in input order, and the content of each element is its lines
\* joined by a newline.
C30_ElementsPartitionTheLines ==
  result.op = ANC =>
    /\ LinesOfElements(result.out) = [k \in 1..Len(lines) |-> Trim(lines[k])]
    /\ \A n \in 1..Len(result.out) :
         /\ Len(result.out[n].lines) >= 1
         /\ result.out[n].content = JoinedByNewLine(result.out[n].lines)

\* a scene header that took the next line in, and a dialogue element of at
\* least two lines, in one result
C30_Witness ==
  /\ result.op = ANC
  /\ \E n \in 1..Len(result.out) :
       result.out[n].type = "scene-header" /\ Len(result.out[n].lines) = 2
  /\ \E n \in 1..Len(result.out) :
       result.out[n].type = "dialogue" /\ Len(result.out[n].lines) >= 2

\* --------------------------------------------------------------- C31
\* C31: parseAndFormat (inline variant) returns for every text: no turn of
\* its main loop leaves the line index where it was, also when a character
\* line is directly followed by a scene header, a transition, a basmala or
\* another character line.
C31_InlineParseTerminates ==
  result.op = PFI => result.out.kind # "diverges"

\* ------------------------------------------------------ TextFlowMonitor
\* The monitored container is a record [host, pages]: host the children of
\* the container in document order, pages[ref] the page element ref with its
\* data-page number and the children of its .page-content.

\* container.querySelectorAll('.page')
TFM_Pages(c) == SelectSeq(c.host, LAMBDA x : x.kind = "page")

\* the ids of all blocks, read page by page
TFM_ReadingOrder(c) ==
  [k \in 1..Len(BlocksOf(c, c.host)) |-> BlocksOf(c, c.host)[k].id]

\* calculateContentHeight: the outer heights of the children added up
TFM_CalculateContentHeight(content) == SumOuter(content)

RECURSIVE TFM_FirstOverflow(_, _, _, _)
\* the for loop of handlePageOverflow: the index of the first element with
\* currentHeight + elementHeight > maxPageHeight, elements.length when none
TFM_FirstOverflow(elements, i, currentHeight, max) ==
  IF i >= Len(elements) THEN i
  ELSE IF currentHeight + OuterHeight(elements[i + 1]) > max THEN i
  ELSE TFM_FirstOverflow(elements, i + 1,
                         currentHeight + OuterHeight(elements[i + 1]), max)

\* the place of page ref among the children of the container
TFM_HostIndex(c, ref) ==
  CHOOSE k \in 1..Len(c.host) : c.host[k].kind = "page" /\ c.host[k].ref = ref

\* updatePageNumbers: data-page is the place among the pages, from 1
TFM_UpdatePageNumbers(c) ==
  [c EXCEPT !.pages =
     [r \in DOMAIN c.pages |->
        [c.pages[r] EXCEPT !.no =
           CHOOSE k \in 1..Len(TFM_Pages(c)) : TFM_Pages(c)[k].ref = r]]]

\* getOrCreateNextPage: the first page with data-page = number + 1, or else a
\* new page put directly after the current page
TFM_GetOrCreateNextPage(c, ref) ==
  LET nextPageNumber == c.pages[ref].no + 1
      found == SelectSeq(TFM_Pages(c), LAMBDA x : c.pages[x.ref].no = nextPageNumber)
      at == TFM_HostIndex(c, ref)
      new == Len(c.pages) + 1
  IN IF found # <<>>
     THEN [c |-> c, ref |-> found[1].ref, created |-> FALSE]
     ELSE [c |-> [host |-> SubSeq(c.host, 1, at) \o <<[kind |-> "page", ref |-> new]>>
                            \o SubSeq(c.host, at + 1, Len(c.host)),
                  pages |-> Append(c.pages, CreatePage(nextPageNumber))],
           ref |-> new, created |-> TRUE]

\* handlePageOverflow of page ref; moves is the record of what was done
TFM_HandlePageOverflow(c, ref, max, moves) ==
  LET elements == c.pages[ref].content
      i == TFM_FirstOverflow(elements, 0, 0, max)
      overflowElements == SubSeq(elements, i + 1, Len(elements))
      g == TFM_GetOrCreateNextPage(c, ref)
      moved == [g.c EXCEPT
                  !.pages[ref].content = SubSeq(elements, 1, i),
                  !.pages[g.ref].content = g.c.pages[g.ref].content \o overflowElements]
  IN IF overflowElements = <<>> THEN [c |-> c, moves |-> moves]
     ELSE [c |-> TFM_UpdatePageNumbers(moved),
           moves |-> Append(moves,
                       [page |-> c.pages[ref].no,
                        count |-> Len(overflowElements),
                        created |-> g.created,
                        held |-> Len(g.c.pages[g.ref].content),
                        before |-> TFM_ReadingOrder(c),
                        after |-> TFM_ReadingOrder(moved)])]

RECURSIVE TFM_ForEachPage(_, _, _, _, _)
\* pages.forEach of checkTextFlow over the pages found when the pass began
TFM_ForEachPage(c, found, k, max, moves) ==
  IF k > Len(found) THEN [c |-> c, moves |-> moves]
  ELSE IF TFM_CalculateContentHeight(c.pages[found[k].ref].content) > max
       THEN CHOOSE r \in {TFM_ForEachPage(h.c, found, k + 1, max, h.moves) :
                           h \in {TFM_HandlePageOverflow(c, found[k].ref, max, moves)}} :
              TRUE
       ELSE TFM_ForEachPage(c, found, k + 1, max, moves)

\* checkTextFlow(container)
TFM_CheckTextFlow(c, max) == TFM_ForEachPage(c, TFM_Pages(c), 1, max, <<>>)

\* a block of the container: outer height h, number n in reading order
TFM_Block(n, h) ==
  [text |-> <<>>, height |-> h, marginTop |-> 0, marginBottom |-> 0,
   id |-> <<n, 0>>, cls |-> "action"]

\* the heights of the blocks of one page
TFM_PageHeights == UNION {[1..n -> 1..MaxBlockH] : n \in 0..MaxElems}

\* a container of one or two pages as createPagedHTML or an edit left it
InitMonitor ==
  /\ variant = "basic"
  /\ pageHeight \in 1..MaxPageH
  /\ \E first \in TFM_PageHeights, second \in TFM_PageHeights, n \in {1, 2} :
       /\ pages = IF n = 1
                  THEN << [no |-> 1,
                           content |-> [k \in 1..Len(first) |-> TFM_Block(k, first[k])]] >>
                  ELSE << [no |-> 1,
                           content |-> [k \in 1..Len(first) |-> TFM_Block(k, first[k])]],
                          [no |-> 2,
                           content |-> [k \in 1..Len(second) |->
                                          TFM_Block(Len(first) + k, second[k])]] >>
       /\ host = IF n = 1 THEN << [kind |-> "page", ref |-> 1] >>
                 ELSE << [kind |-> "page", ref |-> 1], Separator,
                         [kind |-> "page", ref |-> 2] >>
       /\ pageNo = n
       /\ n = 1 => second = <<>>
  /\ current = 1
  /\ ops = 0
  /\ log = <<>>
  /\ call = [op |-> "new"]
  /\ lines = <<>>
  /\ startIndex = 0
  /\ result = [op |-> "none"]

\* one pass of checkTextFlow over the container of the state
TFM_Pass(op) ==
  \E r \in {TFM_CheckTextFlow([host |-> host, pages |-> pages], pageHeight)} :
     /\ host' = r.c.host
     /\ pages' = r.c.pages
     /\ pageNo' = Len(r.c.pages)
     /\ ops' = ops + 1
     /\ call' = [op |-> op]
     /\ result' = [op |-> "checkTextFlow", moves |-> r.moves]
     /\ UNCHANGED <<variant, pageHeight, current, log, lines, startIndex>>

\* startMonitoring: the observer is set up and the first check is made
StartMonitoring ==
  /\ call.op = "new"
  /\ TFM_Pass("startMonitoring")

\* the MutationObserver's callback: the moves of the last pass changed the
\* child lists of the container, so checkTextFlow runs again
ObserverCallback ==
  /\ call.op \in {"startMonitoring", "observer"}
  /\ result.moves # <<>>
  /\ ops < MaxPasses
  /\ TFM_Pass("observer")

NextMonitor == StartMonitoring \/ ObserverCallback

\* the observer's callback is a task the browser runs whenever it is queued
SpecMonitor == InitMonitor /\ [][NextMonitor]_vars /\ WF_vars(NextMonitor)

\* MaxPasses bounds the passes that are followed.  A container whose blocks
\* all fit a page is stable before the bound: only a block taller than
\* maxPageHeight is still being moved when it is reached.
PassBoundOnlyWithOversizedBlock ==
  (result.op = "checkTextFlow" /\ ops = MaxPasses /\ result.moves # <<>>) =>
    \E p \in DOMAIN pages : \E k \in DOMAIN pages[p].content :
      OuterHeight(pages[p].content[k]) > pageHeight

C33_MovePreservesReadingOrder ==
  result.op = "checkTextFlow" =>
    \A m \in 1..Len(result.moves) : result.moves[m].after = result.moves[m].before

\* --------------------------------------------------------------- C34
GDH == "generateDialogueHTML"

\* the text after the colon of the character line at index i, as a list
TextOnNameLine(i) ==
  LET firstLine == Trim(LineAt(lines, i))
      c == ColonIndex(firstLine)
      rest == IF c > 1 THEN Trim(SubSeq(firstLine, c + 1, Len(firstLine))) ELSE <<>>
  IN IF rest = <<>> THEN <<>> ELSE <<rest>>

\* what the renderer put out after the name of the block of line i
RenderedAfterName(i) ==
  LET ps == SelectSeq(result.out.emitted,
                      LAMBDA p : p.line = i /\ p.cls \in {"parenthetical", "dialogue",
                                                         "dialogue-text"})
  IN [k \in 1..Len(ps) |-> ps[k].parts[1]]

\* C34: each dialogue renderer puts the parentheticals and dialogue lines of
\* a block out in the order of the input: after the name come the text that
\* followed the colon and then the lines the block took, in the order of the
\* lines.
C34_BlockRenderedInInputOrder ==
  (IsHtml(GDH) \/ IsHtml(PFD)) =>
    \A n \in 1..Len(result.out.emitted) :
      LET p == result.out.emitted[n]
      IN p.cls \in {"character", "character-name"} =>
           RenderedAfterName(p.line) =
             [k \in 1..(Len(TextOnNameLine(p.line)) + Len(p.taken)) |->
                EscapeHtml(IF k <= Len(TextOnNameLine(p.line))
                           THEN TextOnNameLine(p.line)[k]
                           ELSE Trim(LineAt(lines,
                                  p.taken[k - Len(TextOnNameLine(p.line))])))]

\* ------------------------------------------------- createPages calls
\* an engine whose content height is pageHeight
InitCreatePages ==
  /\ variant = "basic"
  /\ pageHeight \in 1..MaxPageH
  /\ host = NewEngine.host
  /\ pages = NewEngine.pages
  /\ current = NewEngine.current
  /\ pageNo = NewEngine.pageNo
  /\ ops = 0
  /\ log = <<>>
  /\ call = [op |-> "new"]
  /\ lines = <<>>
  /\ startIndex = 0
  /\ result = [op |-> "none"]

\* createPages(elements) of the PaginationEngine of ruler.ts; the method keeps
\* no state, so one call of each engine is looked at
DoCreatePages ==
  /\ call.op = "new"
  /\ \E elements \in CP_ElementLists :
       /\ call' = [op |-> "createPages", elements |-> elements]
       /\ result' = [op |-> "createPages", out |-> CreatePages(elements, pageHeight)]
  /\ UNCHANGED <<variant, pageHeight, host, pages, current, pageNo, ops, log,
                 lines, startIndex>>

NextCreatePages == DoCreatePages

SpecCreatePages == InitCreatePages /\ [][NextCreatePages]_vars

\* --------------------------------------------------------------- C35
CPG == "createPages"

RECURSIVE ElementsOfPages(_)
\* the elements of the pages, concatenated in page order
ElementsOfPages(pgs) ==
  IF pgs = <<>> THEN <<>>
  ELSE Head(pgs).elements \o ElementsOfPages(Tail(pgs))

RECURSIVE SumEstimated(_)
SumEstimated(es) ==
  IF es = <<>> THEN 0 ELSE Head(es).estimatedHeight + SumEstimated(Tail(es))

\* C35: createPages returns at least one page, the pages are numbered 1..n,
\* their elements concatenated are the elements given, each page's height is
\* the sum of the estimated heights of its elements, and a page higher than
\* maxPageHeight holds one element only.
C35_PagesPartitionTheElements ==
  result.op = CPG =>
    /\ Len(result.out) >= 1
    /\ \A n \in 1..Len(result.out) :
         /\ result.out[n].pageNumber = n
         /\ result.out[n].height = SumEstimated(result.out[n].elements)
         /\ result.out[n].height > pageHeight => Len(result.out[n].elements) = 1
    /\ ElementsOfPages(result.out) = call.elements

\* a page with one element higher than the page, between two other pages
C35_Witness ==
  /\ result.op = CPG
  /\ Len(result.out) = 3
  /\ result.out[2].height > pageHeight
  /\ Len(result.out[1].elements) = 2

\* --------------------------------------------------------------- C36
\* C36: a page of createPages carries the overflow flag exactly when its
\* height is above 95% of maxPageHeight, also a page whose first element
\* alone is that high.
C36_OverflowFlagIffNearLimit ==
  result.op = CPG =>
    \A n \in 1..Len(result.out) :
      result.out[n].overflow <=> (100 * result.out[n].height > 95 * pageHeight)

\* --------------------------------------------------------------- C37
GPH == "generatePaginatedHTML"

\* what an HTML parser reads for one character or entity of the markup
DecodeChar(c) ==
  CASE c = "&lt;" -> "<"
    [] c = "&gt;" -> ">"
    [] c = "&amp;" -> "&"
    [] c = "&nbsp;" -> NBSP
    [] c = "&amp;lt;" -> "&lt;"
    [] c = "&amp;gt;" -> "&gt;"
    [] c = "&amp;amp;" -> "&amp;"
    [] c = "&amp;nbsp;" -> "&nbsp;"
    [] OTHER -> c

\* the markup decoded once
DecodeHtml(text) == [k \in 1..Len(text) |-> DecodeChar(text[k])]

\* the text of element n that the piece p shows
ShownText(p) ==
  LET element == result.out.elements[p.line]
      ls == SplitLines(element.content)
  IN IF p.cls = "scene-header"
     THEN << <<ls[1][1], " ">>
               \o SubSeq(ls[1], SkipSpaces(ls[1], 2), ScenePrefixEnd(ls[1]) - 1),
             SHE_RestOfLine(ls[1]),
             IF Len(ls) >= 2 THEN ls[2] ELSE <<>> >>
     ELSE IF p.cls = "character-name" THEN <<RemoveFirstColon(Trim(ls[1]))>>
     ELSE IF p.cls \in {"parenthetical", "dialogue-text"} THEN <<Trim(ls[p.taken[1]])>>
     ELSE <<element.content>>

\* C37: generatePaginatedHTML escapes every text once: each text of the
\* output, decoded once, is the text of the element it shows, also in scene
\* headers and dialogue blocks with &, < or >.
C37_EscapedExactlyOnce ==
  IsHtml(GPH) =>
    \A n \in 1..Len(result.out.emitted) :
      LET p == result.out.emitted[n]
      IN [k \in 1..Len(p.parts) |-> DecodeHtml(p.parts[k])] = ShownText(p)

\* --------------------------------------------------------------- C38
\* C38: on the same lines and start index the SceneHeaderExtractor and the
\* extractor of the line classifier both return null, or return the same
\* consumedLines and take the same lines into place.
C38_SceneHeaderExtractorsAgree ==
  result.op = SHE =>
    LET other == ExtractSceneHeaderParts(lines, startIndex)
    IN \/ result.out.kind = "null" /\ other.kind = "null"
       \/ /\ result.out.kind = "parts"
          /\ other.kind = "parts"
          /\ result.out.consumedLines = other.consumedLines
          /\ result.out.taken = other.taken

\* --------------------------------------------------------------- C39
\* C39: in every state of the engine, also after clear(), the pages carry the
\* numbers 1..n in the order of their creation, the page counter is the
\* number of pages, and the host holds the pages in that order with exactly
\* one separator between two consecutive pages and none before the first.
C39_PagesNumberedAndSeparated ==
  /\ Len(pages) >= 1
  /\ pageNo = Len(pages)
  /\ \A i \in 1..Len(pages) : pages[i].no = i
  /\ Len(host) = 2 * Len(pages) - 1
  /\ \A k \in 1..Len(host) :
       IF k % 2 = 1 THEN host[k] = [kind |-> "page", ref |-> (k + 1) \div 2]
       ELSE host[k].kind = "page-separator"

\* a second page was added after a clear() that followed earlier appends
C39_Witness ==
  /\ Len(pages) >= 2
  /\ log # <<>>
  /\ Len(log) < ops
  /\ call.op # "clear"

====
